---- MODULE Spec2Model ----
(***************************************************************************)
(* Model of the Gerch backend (backend/server.py, backend/api_clients.py): *)
(* the /chat dispatcher with its ordered handler scan, the intent          *)
(* classifier, the /search aggregator, the language-model fallback chain   *)
(* and the response composer.                                              *)
(*                                                                         *)
(* Text is modelled as a sequence of one-character strings so that         *)
(* lower(), replace(), strip(), split() and the substring tests of the     *)
(* source are computed, not assumed.                                       *)
(***************************************************************************)
EXTENDS Integers, Sequences, FiniteSets, TLC

\* ------------------------------------------------------------------------
\* str operations of Python used by server.py
\* ------------------------------------------------------------------------
UpperChars == <<"A","B","C","D","E","F","G","H","I","J","K","L","M","N","O","P","Q","R","S","T","U","V","W","X","Y","Z">>

LowerChars == <<"a","b","c","d","e","f","g","h","i","j","k","l","m","n","o","p","q","r","s","t","u","v","w","x","y","z">>

Whitespace == {" ", "\t", "\n"}

Digits == {"0","1","2","3","4","5","6","7","8","9"}

\* str.lower() on one character
LowerChar(c) ==
    IF \E i \in 1..Len(UpperChars) : UpperChars[i] = c
    THEN LowerChars[CHOOSE i \in 1..Len(UpperChars) : UpperChars[i] = c]
    ELSE c

\* str.lower()
Lower(s) == [i \in 1..Len(s) |-> LowerChar(s[i])]

\* k in s   (substring test)
Contains(s, k) ==
    \E i \in 1..(Len(s) - Len(k) + 1) : SubSeq(s, i, i + Len(k) - 1) = k

\* any(k in s for k in ks)
ContainsAny(s, ks) == \E k \in ks : Contains(s, k)

\* s.startswith(k)
StartsWith(s, k) == Len(s) >= Len(k) /\ SubSeq(s, 1, Len(k)) = k

\* the subsequence of s at the indices in keep, in order
Pick(s, keep) ==
    [j \in 1..Cardinality(keep) |->
        s[CHOOSE i \in keep : Cardinality({x \in keep : x <= i}) = j]]

\* where k occurs in s
Occurrences(s, k) ==
    {i \in 1..(Len(s) - Len(k) + 1) : SubSeq(s, i, i + Len(k) - 1) = k}

\* the occurrences str.replace takes: scanning left to right, an occurrence
\* that overlaps an occurrence already taken is passed over
Taken(s, k) ==
    LET occ == Occurrences(s, k)
    IN  CHOOSE T \in SUBSET occ :
          \A i \in occ : i \in T <=> ~\E j \in T : j < i /\ i < j + Len(k)

\* s.replace(k, "")
Remove(s, k) ==
    LET T == Taken(s, k)
    IN  Pick(s, {i \in 1..Len(s) : ~\E j \in T : j <= i /\ i < j + Len(k)})

\* s.strip()
Strip(s) ==
    LET ink == {i \in 1..Len(s) : s[i] \notin Whitespace}
    IN  IF ink = {} THEN <<>>
        ELSE SubSeq(s, CHOOSE i \in ink : \A j \in ink : i <= j,
                       CHOOSE i \in ink : \A j \in ink : j <= i)

\* s.split(): the maximal runs of non-whitespace characters
Split(s) ==
    LET starts == {i \in 1..Len(s) : s[i] \notin Whitespace /\ (i = 1 \/ s[i - 1] \in Whitespace)}
        ends   == {i \in 1..Len(s) : s[i] \notin Whitespace /\ (i = Len(s) \/ s[i + 1] \in Whitespace)}
        Nth(S, j) == CHOOSE i \in S : Cardinality({x \in S : x <= i}) = j
    IN  [j \in 1..Cardinality(starts) |-> SubSeq(s, Nth(starts, j), Nth(ends, j))]

\* for k in ks: s = s.lower().replace(k, "").strip()
RECURSIVE StripTriggers(_, _)
StripTriggers(s, ks) ==
    IF ks = <<>> THEN s
    ELSE StripTriggers(Strip(Remove(Lower(s), Head(ks))), Tail(ks))

SeqToSet(q) == {q[i] : i \in 1..Len(q)}

\* str.upper() on one character
UpperChar(c) ==
    IF \E i \in 1..Len(LowerChars) : LowerChars[i] = c
    THEN UpperChars[CHOOSE i \in 1..Len(LowerChars) : LowerChars[i] = c]
    ELSE c

\* str.capitalize()
Capitalize(s) == [i \in 1..Len(s) |-> IF i = 1 THEN UpperChar(s[i]) ELSE LowerChar(s[i])]

DigitChar(d) == <<"0","1","2","3","4","5","6","7","8","9">>[d + 1]

\* str(n) of a natural number
RECURSIVE NatChars(_)
NatChars(n) == IF n < 10 THEN <<DigitChar(n)>> ELSE NatChars(n \div 10) \o <<DigitChar(n % 10)>>

\* the natural number n on exactly w digits
RECURSIVE Padded(_, _)
Padded(n, w) == IF w = 0 THEN <<>> ELSE Padded(n \div 10, w - 1) \o <<DigitChar(n % 10)>>

\* format(n, ","): the digits in groups of three
RECURSIVE Grouped(_)
Grouped(n) == IF n < 1000 THEN NatChars(n) ELSE Grouped(n \div 1000) \o <<",">> \o Padded(n % 1000, 3)

\* A number of a JSON body: the key may be missing; a present number is
\* held exactly as an integer count of units of 10^-scale.
Number(units) == [present |-> TRUE, units |-> units]

Missing == [present |-> FALSE, units |-> 0]

Magnitude(x) == IF x < 0 THEN -x ELSE x

\* f"{temp}" for temp = d.get(key, 0): the repr of a float with one
\* decimal, or "0" for the default
FormatPlain(r) ==
    IF ~r.present THEN <<"0">>
    ELSE (IF r.units < 0 THEN <<"-">> ELSE <<>>)
         \o NatChars(Magnitude(r.units) \div 10) \o <<".">> \o <<DigitChar(Magnitude(r.units) % 10)>>

\* f"{price:,.2f}" for price = d.get(key, 0), the number held in hundredths
FormatGrouped(r) ==
    (IF r.units < 0 THEN <<"-">> ELSE <<>>)
    \o Grouped(Magnitude(r.units) \div 100) \o <<".">> \o Padded(Magnitude(r.units) % 100, 2)

\* f"{change:+.2f}" for change = d.get(key, 0), the number held in hundredths
FormatSigned(r) ==
    (IF r.units < 0 THEN <<"-">> ELSE <<"+">>)
    \o NatChars(Magnitude(r.units) \div 100) \o <<".">> \o Padded(Magnitude(r.units) % 100, 2)

\* keyword and trigger literals of server.py
s_search == <<"s","e","a","r","c","h">>
s_find == <<"f","i","n","d">>
s_show_me == <<"s","h","o","w"," ","m","e">>
s_images_of == <<"i","m","a","g","e","s"," ","o","f">>
s_pictures_of == <<"p","i","c","t","u","r","e","s"," ","o","f">>
s_articles_about == <<"a","r","t","i","c","l","e","s"," ","a","b","o","u","t">>
s_define == <<"d","e","f","i","n","e">>
s_what_is == <<"w","h","a","t"," ","i","s">>
s_tell_me_about == <<"t","e","l","l"," ","m","e"," ","a","b","o","u","t">>
s_explain == <<"e","x","p","l","a","i","n">>
s_generate_image == <<"g","e","n","e","r","a","t","e"," ","i","m","a","g","e">>
s_create_image == <<"c","r","e","a","t","e"," ","i","m","a","g","e">>
s_draw == <<"d","r","a","w">>
s_make_a_picture == <<"m","a","k","e"," ","a"," ","p","i","c","t","u","r","e">>
s_can_you_generate_an_image == <<"c","a","n"," ","y","o","u"," ","g","e","n","e","r","a","t","e"," ","a","n"," ","i","m","a","g","e">>
s_can_you_create_an_image == <<"c","a","n"," ","y","o","u"," ","c","r","e","a","t","e"," ","a","n"," ","i","m","a","g","e">>
s_generate_an_image == <<"g","e","n","e","r","a","t","e"," ","a","n"," ","i","m","a","g","e">>
s_create_an_image == <<"c","r","e","a","t","e"," ","a","n"," ","i","m","a","g","e">>
s_can_you_generate == <<"c","a","n"," ","y","o","u"," ","g","e","n","e","r","a","t","e">>
s_can_you_create == <<"c","a","n"," ","y","o","u"," ","c","r","e","a","t","e">>
s_of == <<"o","f">>
s_a_beautiful_landscape == <<"a"," ","b","e","a","u","t","i","f","u","l"," ","l","a","n","d","s","c","a","p","e">>
s_crypto == <<"c","r","y","p","t","o">>
s_bitcoin == <<"b","i","t","c","o","i","n">>
s_ethereum == <<"e","t","h","e","r","e","u","m">>
s_price_of == <<"p","r","i","c","e"," ","o","f">>
s_price == <<"p","r","i","c","e">>
s_btc == <<"b","t","c">>
s_eth == <<"e","t","h">>
s_dogecoin == <<"d","o","g","e","c","o","i","n">>
s_doge == <<"d","o","g","e">>
s_cardano == <<"c","a","r","d","a","n","o">>
s_ada == <<"a","d","a">>
s_solana == <<"s","o","l","a","n","a">>
s_sol == <<"s","o","l">>
s_research == <<"r","e","s","e","a","r","c","h">>
s_paper == <<"p","a","p","e","r">>
s_arxiv == <<"a","r","x","i","v">>
s_academic == <<"a","c","a","d","e","m","i","c">>
s_research_on == <<"r","e","s","e","a","r","c","h"," ","o","n">>
s_paper_about == <<"p","a","p","e","r"," ","a","b","o","u","t">>
s_programming_question == <<"p","r","o","g","r","a","m","m","i","n","g"," ","q","u","e","s","t","i","o","n">>
s_stack_overflow == <<"s","t","a","c","k"," ","o","v","e","r","f","l","o","w">>
s_how_to_code == <<"h","o","w"," ","t","o"," ","c","o","d","e">>
s_weather == <<"w","e","a","t","h","e","r">>
s_temperature == <<"t","e","m","p","e","r","a","t","u","r","e">>
s_forecast == <<"f","o","r","e","c","a","s","t">>
s_london == <<"l","o","n","d","o","n">>
s_paris == <<"p","a","r","i","s">>
s_tokyo == <<"t","o","k","y","o">>
s_sydney == <<"s","y","d","n","e","y">>
s_pokemon == <<"p","o","k","e","m","o","n">>
s_pokemon_acute == <<"p","o","k","e_acute","m","o","n">>
s_dog == <<"d","o","g">>
s_cat == <<"c","a","t">>
s_puppy == <<"p","u","p","p","y">>
s_kitten == <<"k","i","t","t","e","n">>
s_joke == <<"j","o","k","e">>
s_chuck == <<"c","h","u","c","k">>
s_norris == <<"n","o","r","r","i","s">>
s_quote == <<"q","u","o","t","e">>
s_programming == <<"p","r","o","g","r","a","m","m","i","n","g">>
s_dev == <<"d","e","v">>
s_my_ip == <<"m","y"," ","i","p">>
s_ip_address == <<"i","p"," ","a","d","d","r","e","s","s">>
s_ip_info == <<"i","p"," ","i","n","f","o">>
s_hi == <<"h","i">>
s_hello == <<"h","e","l","l","o">>
s_hey == <<"h","e","y">>
s_greetings == <<"g","r","e","e","t","i","n","g","s">>
s_how_are_you == <<"h","o","w"," ","a","r","e"," ","y","o","u">>
s_whats_up == <<"w","h","a","t","'","s"," ","u","p">>
s_how_do_you_do == <<"h","o","w"," ","d","o"," ","y","o","u"," ","d","o">>
s_thank == <<"t","h","a","n","k">>
s_thanks == <<"t","h","a","n","k","s">>
s_appreciate == <<"a","p","p","r","e","c","i","a","t","e">>
s_who_are_you == <<"w","h","o"," ","a","r","e"," ","y","o","u">>
s_what_are_you == <<"w","h","a","t"," ","a","r","e"," ","y","o","u">>

\* request messages
m_hello == <<"h","e","l","l","o">>
m_roman == <<"t","e","l","l"," ","m","e"," ","a"," ","d","e","t","a","i","l","e","d"," ","h","i","s","t","o","r","y"," ","o","f"," ","t","h","e"," ","R","o","m","a","n"," ","E","m","p","i","r","e">>
m_btc_weather == <<"b","i","t","c","o","i","n"," ","p","r","i","c","e"," ","a","n","d"," ","w","e","a","t","h","e","r"," ","i","n"," ","L","o","n","d","o","n">>
m_weather_london == <<"w","e","a","t","h","e","r"," ","i","n"," ","L","o","n","d","o","n">>
m_forecast == <<"f","o","r","e","c","a","s","t"," ","t","o","d","a","y">>
m_bitcoin_price == <<"b","i","t","c","o","i","n"," ","p","r","i","c","e">>
m_calc == <<"2"," ","+"," ","2"," ","*"," ","5">>
m_div0 == <<"1","/","0">>
m_bad == <<"2","+">>
m_power == <<"2","*","*","3">>
m_sydney == <<"T","e","m","p","e","r","a","t","u","r","e"," ","i","n"," ","S","Y","D","N","E","Y">>
m_two_cities == <<"f","o","r","e","c","a","s","t"," ","t","o","k","y","o"," ","p","a","r","i","s">>
m_coins == <<"p","r","i","c","e"," ","o","f"," ","s","o","l"," ","a","n","d"," ","d","o","g","e">>
m_gold == <<"g","o","l","d"," ","p","r","i","c","e">>
m_define == <<"d","e","f","i","n","e"," ","s","e","r","e","n","d","i","p","i","t","y">>
m_word == <<"s","e","r","e","n","d","i","p","i","t","y">>
m_einstein == <<"A","l","b","e","r","t"," ","E","i","n","s","t","e","i","n">>
m_pokemon == <<"p","o","k","e","m","o","n">>
m_pikachu == <<"p","o","k","e","m","o","n"," ","p","i","k","a","c","h","u">>
m_dog == <<"s","h","o","w"," ","m","e"," ","a"," ","d","o","g">>
m_cat == <<"s","h","o","w"," ","m","e"," ","a"," ","c","a","t">>
m_joke == <<"c","h","u","c","k"," ","n","o","r","r","i","s"," ","j","o","k","e">>
m_quote == <<"p","r","o","g","r","a","m","m","i","n","g"," ","q","u","o","t","e">>
m_ip == <<"m","y"," ","i","p"," ","a","d","d","r","e","s","s">>
m_draw == <<"d","r","a","w"," ","a"," ","p","e","a","c","e","f","u","l"," ","f","o","r","e","s","t"," ","s","c","e","n","e">>
m_genimg == <<"g","e","n","e","r","a","t","e"," ","i","m","a","g","e">>
m_thank == <<"t","h","a","n","k"," ","y","o","u">>
m_how == <<"h","o","w"," ","a","r","e"," ","y","o","u">>
m_who == <<"w","h","o"," ","a","r","e"," ","y","o","u">>
m_morning == <<"g","o","o","d"," ","m","o","r","n","i","n","g">>
m_arxiv == <<"a","r","x","i","v">>
m_papers == <<"r","e","s","e","a","r","c","h"," ","p","a","p","e","r","s"," ","o","n"," ","q","u","a","n","t","u","m"," ","c","o","m","p","u","t","i","n","g">>
m_so == <<"s","t","a","c","k"," ","o","v","e","r","f","l","o","w"," ","p","y","t","h","o","n"," ","a","s","y","n","c"," ","a","w","a","i","t">>
m_hotdog == <<"h","o","t"," ","d","o","g"," ","s","t","a","n","d"," ","w","e","a","t","h","e","r">>
m_many == <<"h","o","w"," ","t","o"," ","c","o","d","e"," ","a"," ","p","a","p","e","r"," ","p","r","i","c","e"," ","w","e","a","t","h","e","r"," ","p","o","k","e","m","o","n"," ","d","o","g"," ","c","a","t"," ","c","h","u","c","k"," ","j","o","k","e"," ","m","y"," ","i","p">>

\* ------------------------------------------------------------------------
\* Trigger predicates and extractors of the handlers (server.py 294-520).
\* Each takes the raw message, as the handler does.
\* ------------------------------------------------------------------------
pollinations_triggers == <<s_generate_image, s_create_image, s_draw, s_make_a_picture, s_generate_an_image, s_create_an_image, s_can_you_generate, s_can_you_create>>

pollinations_predicate(message) ==
    ContainsAny(Lower(message), SeqToSet(pollinations_triggers))

\* variant of pollinations_prompt without the default prompt
pollinations_prompt_no_default(message) ==
    LET p1 == StripTriggers(message, pollinations_triggers)
    IN  IF p1 = <<>> \/ StartsWith(p1, s_of) THEN Strip(Remove(p1, s_of)) ELSE p1

pollinations_prompt(message) ==
    LET p1 == StripTriggers(message, pollinations_triggers)
        p2 == IF p1 = <<>> \/ StartsWith(p1, s_of) THEN Strip(Remove(p1, s_of)) ELSE p1
    IN  IF p2 = <<>> THEN s_a_beautiful_landscape ELSE p2

crypto_predicate(message) ==
    ContainsAny(Lower(message), {s_crypto, s_bitcoin, s_ethereum, s_price})

\* variant of crypto_coin_ids without the default pair
crypto_coin_ids_no_default(message) ==
    LET ml == Lower(message)
        c1 == IF Contains(ml, s_bitcoin) \/ Contains(ml, s_btc) THEN <<s_bitcoin>> ELSE <<>>
        c2 == IF Contains(ml, s_ethereum) \/ Contains(ml, s_eth) THEN <<s_ethereum>> ELSE <<>>
        c3 == IF Contains(ml, s_dogecoin) \/ Contains(ml, s_doge) THEN <<s_dogecoin>> ELSE <<>>
        c4 == IF Contains(ml, s_cardano) \/ Contains(ml, s_ada) THEN <<s_cardano>> ELSE <<>>
        c5 == IF Contains(ml, s_solana) \/ Contains(ml, s_sol) THEN <<s_solana>> ELSE <<>>
    IN  c1 \o c2 \o c3 \o c4 \o c5

crypto_coin_ids(message) ==
    LET ml == Lower(message)
        c1 == IF Contains(ml, s_bitcoin) \/ Contains(ml, s_btc) THEN <<s_bitcoin>> ELSE <<>>
        c2 == IF Contains(ml, s_ethereum) \/ Contains(ml, s_eth) THEN <<s_ethereum>> ELSE <<>>
        c3 == IF Contains(ml, s_dogecoin) \/ Contains(ml, s_doge) THEN <<s_dogecoin>> ELSE <<>>
        c4 == IF Contains(ml, s_cardano) \/ Contains(ml, s_ada) THEN <<s_cardano>> ELSE <<>>
        c5 == IF Contains(ml, s_solana) \/ Contains(ml, s_sol) THEN <<s_solana>> ELSE <<>>
        coin_ids == c1 \o c2 \o c3 \o c4 \o c5
    IN  IF coin_ids = <<>> THEN <<s_bitcoin, s_ethereum>> ELSE coin_ids

arxiv_predicate(message) ==
    ContainsAny(Lower(message), {s_research, s_paper, s_arxiv, s_academic})

arxiv_query(message) ==
    StripTriggers(message, <<s_research_on, s_paper_about, s_arxiv, s_academic>>)

stackoverflow_predicate(message) ==
    ContainsAny(Lower(message), {s_stack_overflow, s_programming_question, s_how_to_code})

stackoverflow_query(message) ==
    StripTriggers(message, <<s_stack_overflow, s_programming_question, s_how_to_code>>)

weather_predicate(message) ==
    ContainsAny(Lower(message), {s_weather, s_temperature, s_forecast})

\* location_name
n_London == <<"L","o","n","d","o","n">>
n_Paris == <<"P","a","r","i","s">>
n_Tokyo == <<"T","o","k","y","o">>
n_Sydney == <<"S","y","d","n","e","y">>
n_New_York == <<"N","e","w"," ","Y","o","r","k">>

\* variant of weather_location without the city detection
weather_location_default(message) == n_New_York

weather_location(message) ==
    LET ml == Lower(message)
    IN  IF Contains(ml, s_london) THEN n_London
        ELSE IF Contains(ml, s_paris) THEN n_Paris
        ELSE IF Contains(ml, s_tokyo) THEN n_Tokyo
        ELSE IF Contains(ml, s_sydney) THEN n_Sydney
        ELSE n_New_York

pokemon_predicate(message) ==
    Contains(Lower(message), s_pokemon) \/ Contains(Lower(message), s_pokemon_acute)

pokemon_name(message) ==
    Strip(Remove(Remove(Lower(message), s_pokemon), s_pokemon_acute))

dog_predicate(message) ==
    Contains(Lower(message), s_dog) \/ Contains(Lower(message), s_puppy)

cat_predicate(message) ==
    Contains(Lower(message), s_cat) \/ Contains(Lower(message), s_kitten)

joke_predicate(message) ==
    /\ Contains(Lower(message), s_joke)
    /\ (Contains(Lower(message), s_chuck) \/ Contains(Lower(message), s_norris))

quote_predicate(message) ==
    /\ Contains(Lower(message), s_quote)
    /\ (Contains(Lower(message), s_programming) \/ Contains(Lower(message), s_dev))

ip_predicate(message) ==
    ContainsAny(Lower(message), {s_my_ip, s_ip_address, s_ip_info})

\* ------------------------------------------------------------------------
\* CalculatorService.is_valid_expression: ^[\d+\-*/().\s]+$
\* ------------------------------------------------------------------------
CalcChars == Digits \cup {"+", "-", "*", "/", "(", ")", "."} \cup Whitespace

\* variant of is_valid_expression without the character class
is_valid_expression_any(expression) == expression # <<>>

is_valid_expression(expression) ==
    /\ expression # <<>>
    /\ \A i \in 1..Len(expression) : expression[i] \in CalcChars

\* ------------------------------------------------------------------------
\* determine_intent (server.py 243-291): the needs_search flag
\* ------------------------------------------------------------------------
search_keywords == {s_search, s_find, s_show_me, s_images_of, s_pictures_of, s_articles_about, s_define, s_what_is, s_tell_me_about, s_explain}

\* variant of determine_intent without the single-word rule
determine_intent_no_single_word(message) ==
    LET ml == Lower(message)
    IN  \/ ContainsAny(ml, search_keywords)
        \/ ContainsAny(ml, {s_generate_image, s_create_image, s_draw, s_make_a_picture, s_can_you_generate_an_image, s_can_you_create_an_image})
        \/ ContainsAny(ml, {s_crypto, s_bitcoin, s_ethereum, s_price_of})
        \/ ContainsAny(ml, {s_research, s_paper, s_arxiv, s_academic})
        \/ ContainsAny(ml, {s_programming_question, s_stack_overflow, s_how_to_code})
        \/ ContainsAny(ml, {s_weather, s_temperature, s_forecast})
        \/ ContainsAny(ml, {s_pokemon, s_pokemon_acute})
        \/ ContainsAny(ml, {s_dog, s_cat, s_puppy, s_kitten})
        \/ (Contains(ml, s_joke) /\ Contains(ml, s_chuck))
        \/ (Contains(ml, s_quote) /\ (Contains(ml, s_programming) \/ Contains(ml, s_dev)))
        \/ ContainsAny(ml, {s_my_ip, s_ip_address, s_ip_info})
        \/ is_valid_expression(message)

determine_intent(message) ==
    LET ml == Lower(message)
        words == Split(message)
    IN  \/ ContainsAny(ml, search_keywords)
        \/ ContainsAny(ml, {s_generate_image, s_create_image, s_draw, s_make_a_picture, s_can_you_generate_an_image, s_can_you_create_an_image})
        \/ ContainsAny(ml, {s_crypto, s_bitcoin, s_ethereum, s_price_of})
        \/ ContainsAny(ml, {s_research, s_paper, s_arxiv, s_academic})
        \/ ContainsAny(ml, {s_programming_question, s_stack_overflow, s_how_to_code})
        \/ ContainsAny(ml, {s_weather, s_temperature, s_forecast})
        \/ ContainsAny(ml, {s_pokemon, s_pokemon_acute})
        \/ ContainsAny(ml, {s_dog, s_cat, s_puppy, s_kitten})
        \/ (Contains(ml, s_joke) /\ Contains(ml, s_chuck))
        \/ (Contains(ml, s_quote) /\ (Contains(ml, s_programming) \/ Contains(ml, s_dev)))
        \/ ContainsAny(ml, {s_my_ip, s_ip_address, s_ip_info})
        \/ (Len(words) = 1 /\ Len(words[1]) > 3)
        \/ is_valid_expression(message)

\* ------------------------------------------------------------------------
\* generate_fallback_response (server.py 590-606): the rule-based replies
\* ------------------------------------------------------------------------
GREETING == "Hello! I'm Gerch, your AI-powered search assistant. How can I help you today?"

HOW_ARE_YOU == "I'm doing great, thank you! I'm here to help you search for information, answer questions, and assist with various tasks. What would you like to know?"

THANKS == "You're very welcome! Let me know if you need anything else."

WHO_ARE_YOU == "I'm Gerch, an AI-powered search engine and assistant. I can help you find information, answer questions, generate images, get crypto prices, check weather, and much more!"

APOLOGY == "I understand your message. I'm here to help! Could you please provide more details or ask a specific question?"

generate_fallback_response(message) ==
    LET ml == Lower(message)
    IN  IF ContainsAny(ml, {s_hi, s_hello, s_hey, s_greetings}) THEN GREETING
        ELSE IF ContainsAny(ml, {s_how_are_you, s_whats_up, s_how_do_you_do}) THEN HOW_ARE_YOU
        ELSE IF ContainsAny(ml, {s_thank, s_thanks, s_appreciate}) THEN THANKS
        ELSE IF Contains(ml, s_who_are_you) \/ Contains(ml, s_what_are_you) THEN WHO_ARE_YOU
        ELSE APOLOGY

\* ------------------------------------------------------------------------
\* CalculatorService.calculate (server.py 91-136).
\* ast.parse(expression, mode='eval') is modelled by a tokenizer and a
\* recursive-descent parser for the part of Python's expression grammar
\* that the allow-listed characters can spell; evaluate_node walks the tree.
\* Numbers are exact rationals n/d with a flag f telling a Python float.
\* ------------------------------------------------------------------------
RECURSIVE GCD(_, _)
GCD(a, b) == IF b = 0 THEN a ELSE GCD(b, a % b)

Abs(a) == IF a < 0 THEN -a ELSE a

RECURSIVE Pow(_, _)
Pow(b, e) == IF e = 0 THEN 1 ELSE b * Pow(b, e - 1)

\* the number n/d in lowest terms, d > 0
Num(n, d, f) ==
    LET g == GCD(Abs(n), Abs(d))
        s == IF d < 0 THEN -1 ELSE 1
    IN  [n |-> (s * n) \div g, d |-> (s * d) \div g, f |-> f]

DigitVal(c) == CHOOSE v \in 0..9 : <<"0","1","2","3","4","5","6","7","8","9">>[v + 1] = c

RECURSIVE DigitsVal(_, _)
DigitsVal(s, acc) == IF s = <<>> THEN acc ELSE DigitsVal(Tail(s), 10 * acc + DigitVal(Head(s)))

\* the longest prefix of s made of digits and dots
RECURSIVE NumberRun(_)
NumberRun(s) ==
    IF s # <<>> /\ Head(s) \in Digits \cup {"."} THEN <<Head(s)>> \o NumberRun(Tail(s)) ELSE <<>>

Tok(t) == [t |-> t, n |-> 0, d |-> 1, f |-> FALSE]

\* Python's Ellipsis object, the value of the literal "...": it is told
\* from every number by its denominator 0
Ellipsis == [n |-> 0, d |-> 0, f |-> FALSE]

IsEllipsis(v) == v.d = 0

\* a NUMBER token of Python: digits, digits "." [digits], "." digits;
\* an integer literal with a leading zero is only legal when it is all zeros;
\* three dots standing alone are the ELLIPSIS token
NumberToken(run) ==
    LET dots == {i \in 1..Len(run) : run[i] = "."}
        nd   == Len(run) - Cardinality(dots)
    IN  IF run = <<".", ".", ".">> THEN [t |-> "...", n |-> 0, d |-> 0, f |-> FALSE]
        ELSE IF Cardinality(dots) > 1 \/ nd = 0 THEN Tok("err")
        ELSE IF dots = {}
             THEN IF Len(run) > 1 /\ run[1] = "0" /\ DigitsVal(run, 0) # 0 THEN Tok("err")
                  ELSE [t |-> "num", n |-> DigitsVal(run, 0), d |-> 1, f |-> FALSE]
             ELSE LET p    == CHOOSE i \in dots : TRUE
                      ip   == SubSeq(run, 1, p - 1)
                      fp   == SubSeq(run, p + 1, Len(run))
                      q    == Num(DigitsVal(ip \o fp, 0), Pow(10, Len(fp)), TRUE)
                  IN  [t |-> "num", n |-> q.n, d |-> q.d, f |-> TRUE]

\* tokens of the expression; depth is the number of open parentheses
\* (a newline outside parentheses ends the logical line)
RECURSIVE Tokenize(_, _)
Tokenize(s, depth) ==
    IF s = <<>> THEN <<>>
    ELSE LET c == Head(s) IN
         IF c \in {" ", "\t"} THEN Tokenize(Tail(s), depth)
         ELSE IF c = "\n"
              THEN IF depth > 0 THEN Tokenize(Tail(s), depth)
                   ELSE <<Tok("err")>> \o Tokenize(Tail(s), depth)
         ELSE IF c \in Digits \cup {"."}
              THEN LET run == NumberRun(s)
                   IN  <<NumberToken(run)>> \o Tokenize(SubSeq(s, Len(run) + 1, Len(s)), depth)
         ELSE IF c \in {"*", "/"} /\ Len(s) > 1 /\ s[2] = c
              THEN <<Tok(IF c = "*" THEN "**" ELSE "//")>> \o Tokenize(SubSeq(s, 3, Len(s)), depth)
         ELSE IF c = "(" THEN <<Tok("(")>> \o Tokenize(Tail(s), depth + 1)
         ELSE IF c = ")" THEN <<Tok(")")>> \o Tokenize(Tail(s), IF depth > 0 THEN depth - 1 ELSE 0)
         ELSE <<Tok(c)>> \o Tokenize(Tail(s), depth)

NoNode == [type |-> "None"]

Fail == [ok |-> FALSE, node |-> NoNode, rest |-> <<>>]

Parsed(node, rest) == [ok |-> TRUE, node |-> node, rest |-> rest]

BinOp(op, left, right) == [type |-> "BinOp", op |-> op, left |-> left, right |-> right]

HeadIs(ts, ops) == ts # <<>> /\ Head(ts).t \in ops

\* One recursive operator holds the grammar; rule names the production:
\*   expr:    term (('+'|'-') term)*          (expr_loop carries the left operand)
\*   term:    factor (('*'|'/'|'//') factor)* (term_loop carries the left operand)
\*   factor:  ('+'|'-') factor | power
\*   power:   primary ['**' factor]
\*   primary: atom ('(' [expr] ')')*          (trailer: a following parenthesis is a call)
\*   atom:    NUMBER | '...' | '(' expr ')' | '(' ')'
RECURSIVE Parse(_, _, _)
Parse(rule, ts, left) ==
    IF rule = "expr"
    THEN LET r == Parse("term", ts, NoNode)
         IN  IF r.ok THEN Parse("expr_loop", r.rest, r.node) ELSE Fail
    ELSE IF rule = "expr_loop"
    THEN IF HeadIs(ts, {"+", "-"})
         THEN LET r == Parse("term", Tail(ts), NoNode)
              IN  IF r.ok THEN Parse("expr_loop", r.rest, BinOp(Head(ts).t, left, r.node)) ELSE Fail
         ELSE Parsed(left, ts)
    ELSE IF rule = "term"
    THEN LET r == Parse("factor", ts, NoNode)
         IN  IF r.ok THEN Parse("term_loop", r.rest, r.node) ELSE Fail
    ELSE IF rule = "term_loop"
    THEN IF HeadIs(ts, {"*", "/", "//"})
         THEN LET r == Parse("factor", Tail(ts), NoNode)
              IN  IF r.ok THEN Parse("term_loop", r.rest, BinOp(Head(ts).t, left, r.node)) ELSE Fail
         ELSE Parsed(left, ts)
    ELSE IF rule = "factor"
    THEN IF HeadIs(ts, {"+", "-"})
         THEN LET r == Parse("factor", Tail(ts), NoNode)
              IN  IF r.ok
                  THEN Parsed([type |-> "UnaryOp", op |-> Head(ts).t, operand |-> r.node], r.rest)
                  ELSE Fail
         ELSE Parse("power", ts, NoNode)
    ELSE IF rule = "power"
    THEN LET r == Parse("primary", ts, NoNode)
         IN  IF ~r.ok THEN Fail
             ELSE IF HeadIs(r.rest, {"**"})
                  THEN LET e == Parse("factor", Tail(r.rest), NoNode)
                       IN  IF e.ok THEN Parsed(BinOp("**", r.node, e.node), e.rest) ELSE Fail
                  ELSE r
    ELSE IF rule = "primary"
    THEN LET r == Parse("atom", ts, NoNode)
         IN  IF r.ok THEN Parse("trailer", r.rest, r.node) ELSE Fail
    ELSE IF rule = "trailer"
    THEN IF HeadIs(ts, {"("})
         THEN IF HeadIs(Tail(ts), {")"})
              THEN Parse("trailer", Tail(Tail(ts)), [type |-> "Call"])
              ELSE LET a == Parse("expr", Tail(ts), NoNode)
                   IN  IF a.ok /\ HeadIs(a.rest, {")"})
                       THEN Parse("trailer", Tail(a.rest), [type |-> "Call"])
                       ELSE Fail
         ELSE Parsed(left, ts)
    ELSE IF HeadIs(ts, {"num", "..."})
    THEN Parsed([type |-> "Constant", n |-> Head(ts).n, d |-> Head(ts).d, f |-> Head(ts).f], Tail(ts))
    ELSE IF HeadIs(ts, {"("})
    THEN IF HeadIs(Tail(ts), {")"})
         THEN Parsed([type |-> "Tuple"], Tail(Tail(ts)))
         ELSE LET r == Parse("expr", Tail(ts), NoNode)
              IN  IF r.ok /\ HeadIs(r.rest, {")"}) THEN Parsed(r.node, Tail(r.rest)) ELSE Fail
    ELSE Fail

\* ast.parse(expression, mode='eval'): ok is FALSE on a SyntaxError
ast_parse(expression) ==
    LET r == Parse("expr", Tokenize(expression, 0), NoNode)
    IN  IF r.ok /\ r.rest = <<>> THEN r ELSE Fail

Value(q) == [ok |-> TRUE, err |-> "", n |-> q.n, d |-> q.d, f |-> q.f]

Raise(e) == [ok |-> FALSE, err |-> e, n |-> 0, d |-> 1, f |-> FALSE]

\* variant of the OPERATORS table without the entry ast.Pow
ApplyBinOp_no_pow(op, l, r) ==
    IF op \in {"//", "**"} THEN Raise("KeyError")
    ELSE IF IsEllipsis(l) \/ IsEllipsis(r) THEN Raise("TypeError")
    ELSE IF op = "+" THEN Value(Num(l.n * r.d + r.n * l.d, l.d * r.d, l.f \/ r.f))
    ELSE IF op = "-" THEN Value(Num(l.n * r.d - r.n * l.d, l.d * r.d, l.f \/ r.f))
    ELSE IF op = "*" THEN Value(Num(l.n * r.n, l.d * r.d, l.f \/ r.f))
    ELSE IF r.n = 0 THEN Raise("ZeroDivisionError")
    ELSE Value(Num(l.n * r.d, l.d * r.n, TRUE))

\* OPERATORS[type(node.op)](left, right)
ApplyBinOp(op, l, r) ==
    IF op # "//" /\ (IsEllipsis(l) \/ IsEllipsis(r)) THEN Raise("TypeError")
    ELSE IF op = "+" THEN Value(Num(l.n * r.d + r.n * l.d, l.d * r.d, l.f \/ r.f))
    ELSE IF op = "-" THEN Value(Num(l.n * r.d - r.n * l.d, l.d * r.d, l.f \/ r.f))
    ELSE IF op = "*" THEN Value(Num(l.n * r.n, l.d * r.d, l.f \/ r.f))
    ELSE IF op = "/" THEN IF r.n = 0 THEN Raise("ZeroDivisionError")
                          ELSE Value(Num(l.n * r.d, l.d * r.n, TRUE))
    ELSE IF op = "**" THEN IF r.d # 1 THEN Raise("Unmodelled")
                           ELSE IF r.n >= 0
                                THEN Value(Num(Pow(l.n, r.n), Pow(l.d, r.n), l.f \/ r.f))
                                ELSE IF l.n = 0 THEN Raise("ZeroDivisionError")
                                     ELSE Value(Num(Pow(l.d, -r.n), Pow(l.n, -r.n), TRUE))
    ELSE Raise("KeyError")

RECURSIVE evaluate_node(_)
evaluate_node(node) ==
    IF node.type = "Constant" THEN Value(node)
    ELSE IF node.type = "BinOp"
         THEN LET left == evaluate_node(node.left) IN
              IF ~left.ok THEN left
              ELSE LET right == evaluate_node(node.right) IN
                   IF ~right.ok THEN right
                   ELSE ApplyBinOp(node.op, left, right)
    ELSE IF node.type = "UnaryOp"
         THEN LET operand == evaluate_node(node.operand) IN
              IF ~operand.ok THEN operand
              ELSE IF IsEllipsis(operand) THEN Raise("TypeError")
              ELSE IF node.op = "-" THEN Value(Num(-operand.n, operand.d, operand.f))
                   ELSE operand
    ELSE Raise("ValueError")

\* the dict returned by calculate; error is the text of the "error" key
CalcOutcome(success, error, v) ==
    [present |-> TRUE, success |-> success, error |-> error, n |-> v.n, d |-> v.d, f |-> v.f]

NoCalc == [present |-> FALSE, success |-> FALSE, error |-> "", n |-> 0, d |-> 1, f |-> FALSE]

\* variant of calculate without the except clause for ZeroDivisionError
calculate_generic_errors(expr) ==
    LET expression == Strip(expr) IN
    IF ~is_valid_expression(expression) THEN CalcOutcome(FALSE, "Invalid expression", Raise(""))
    ELSE LET tree == ast_parse(expression) IN
         IF ~tree.ok THEN CalcOutcome(FALSE, "SyntaxError", Raise(""))
         ELSE LET result == evaluate_node(tree.node) IN
              IF result.ok THEN CalcOutcome(TRUE, "", result)
              ELSE CalcOutcome(FALSE, result.err, Raise(""))

calculate(expr) ==
    LET expression == Strip(expr) IN
    IF ~is_valid_expression(expression) THEN CalcOutcome(FALSE, "Invalid expression", Raise(""))
    ELSE LET tree == ast_parse(expression) IN
         IF ~tree.ok THEN CalcOutcome(FALSE, "SyntaxError", Raise(""))
         ELSE LET result == evaluate_node(tree.node) IN
              IF result.ok THEN CalcOutcome(TRUE, "", result)
              ELSE IF result.err = "ZeroDivisionError"
                   THEN CalcOutcome(FALSE, "Division by zero", Raise(""))
                   ELSE CalcOutcome(FALSE, result.err, Raise(""))

\* ------------------------------------------------------------------------
\* Values exchanged with the providers
\* ------------------------------------------------------------------------
\* What one HTTP exchange can do: 200 with a usable body, 200 with an
\* empty body ({} / [] / missing key), another status, or an exception
\* (connection error, timeout, undecodable body).
TransportOutcomes == {"ok", "empty", "non200", "error"}

\* What a Cerebras completion can do: content with text, content "",
\* content None, or an exception raised by the SDK.
CompletionOutcomes == {"ok", "empty", "none", "raise"}

None == [kind |-> "none", src |-> "", q |-> <<>>]

Empty(src) == [kind |-> "empty", src |-> src, q |-> <<>>]

Data(src, q) == [kind |-> "data", src |-> src, q |-> q]

\* Python truthiness of a provider value
Truthy(v) == v.kind = "data"

\* the shape shared by the api_clients methods: the body on 200, else None
HttpGet(o, src, q) ==
    IF o = "ok" THEN Data(src, q) ELSE IF o = "empty" THEN Empty(src) ELSE None

\* one entry of the dict CoinGecko answers with: the coin id and, in
\* hundredths, its "usd" and "usd_24h_change"
Quote(coin, usd, change) == [coin |-> coin, usd |-> usd, change |-> change]

\* response.json() on 200; "empty" is the body {}
CoinGeckoClient_get_price(o, coin_ids, body) == HttpGet(o, "coingecko", body)

\* f"**{coin.capitalize()}**: ${price:,.2f} ({change:+.2f}%)\n"
PriceLine(e) ==
    <<"*","*">> \o Capitalize(e.coin) \o <<"*","*",":"," ","$">> \o FormatGrouped(e.usd)
    \o <<" ","(">> \o FormatSigned(e.change) \o <<"%",")","\n">>

RECURSIVE PriceLines(_)
PriceLines(prices) ==
    IF prices = <<>> THEN <<>> ELSE PriceLine(Head(prices)) \o PriceLines(Tail(prices))

CryptoHeader ==
    <<"*","*","C","r","y","p","t","o","c","u","r","r","e","n","c","y"," ","P","r","i","c","e","s",":","*","*","\n","\n">>

\* variant of CryptoText that prints the first coin only
CryptoText_first_only(prices) == CryptoHeader \o PriceLine(Head(prices))

\* chat's price reply (server.py 631-635)
CryptoText(prices) == CryptoHeader \o PriceLines(prices)

ArxivClient_search(o, query) == HttpGet(o, "arxiv", query)

StackExchangeClient_search(o, query) == HttpGet(o, "stackexchange", query)

\* the body of a 200 answer of Open-Meteo: its current_weather object
CurrentWeather(temperature, windspeed) == [temperature |-> temperature, windspeed |-> windspeed]

\* response.json() on 200; "empty" is a body without current_weather
OpenMeteoClient_get_weather(o, location, current_weather) ==
    HttpGet(o, "openmeteo", <<current_weather>>)

\* chat's weather reply (server.py 661-668)
WeatherText(location, weather) ==
    <<"*","*","W","e","a","t","h","e","r"," ","i","n"," ">> \o location \o <<"*","*","\n","\n">>
    \o <<"T","e","m","p","e","r","a","t","u","r","e",":"," ">> \o FormatPlain(weather.temperature)
    \o <<"°","C","\n">>
    \o <<"W","i","n","d"," ","S","p","e","e","d",":"," ">> \o FormatPlain(weather.windspeed)
    \o <<" ","k","m","/","h","\n">>

\* the body holds the name and, under sprites, front_default or null
PokeAPIClient_get_pokemon(o, name, sprite) == HttpGet(o, "pokeapi", [name |-> name, front_default |-> sprite])

\* data.get("message"): None when the key is missing
DogAPIClient_get_random_dog(o) == IF o = "ok" THEN Data("dogapi", <<>>) ELSE None

\* data[0].get("url") if len(data) > 0 else None
CatAPIClient_get_random_cat(o) == IF o = "ok" THEN Data("catapi", <<>>) ELSE None

ChuckNorrisClient_get_random_joke(o) == IF o = "ok" THEN Data("chucknorris", <<>>) ELSE None

\* random.choice over the built-in list: no transport, always a quote
ProgrammingQuotesClient_get_random_quote == Data("programming_quotes", <<>>)

IPInfoClient_get_ip_info(o) == HttpGet(o, "ipinfo", <<>>)

\* response.text on 200 ("" is falsy), else None
PollinationsClient_generate_text(o, prompt) == HttpGet(o, "pollinations_text", prompt)

\* pure URL construction, no transport
PollinationsClient_generate_image_url(prompt) == Data("pollinations_image", prompt)

\* data.get("extract", None) on 200, else None
get_wikipedia_summary(o, query) == IF o = "ok" THEN Data("wikipedia", query) ELSE None

ImageResult(url, width, height) == [url |-> url, thumbnail |-> url, width |-> width, height |-> height]

\* the ImageResult list built from the hits on 200, else []
search_pixabay_images(o, query) ==
    IF o = "ok" THEN <<ImageResult(Data("pixabay", query), 640, 480)>> ELSE <<>>

\* the dict built from the first entry on 200, else None
get_dictionary_definition(o, word) == IF o = "ok" THEN Data("dictionary", word) ELSE None

\* response.choices[0].message.content, None when the SDK raises
get_ai_overview(o, query) ==
    IF o = "ok" THEN Data("cerebras", query) ELSE IF o = "empty" THEN Empty("cerebras") ELSE None

\* ------------------------------------------------------------------------
\* Response texts and response models
\* ------------------------------------------------------------------------
\* A response text: kind tells which formatter produced it, s is the fixed
\* string or the name it embeds, v the provider value it was built from.
Text(kind, s, v) == [kind |-> kind, s |-> s, v |-> v]

NoneText == Text("None", "", None)

EmptyText == Text("empty", "", None)

TextTruthy(t) == t.kind \notin {"None", "empty"}

Canned(s) == Text("canned", s, None)

NoSearchData ==
    [present |-> FALSE, query |-> <<>>, ai_overview |-> None, web_results |-> <<>>,
     images |-> <<>>, dictionary |-> None, calculator_result |-> NoCalc,
     wikipedia_summary |-> None, total_results |-> "None", search_time |-> "None"]

SearchResponse(query, ai, web, imgs, dict, calc, wiki, total, time) ==
    [present |-> TRUE, query |-> query, ai_overview |-> ai, web_results |-> web,
     images |-> imgs, dictionary |-> dict, calculator_result |-> calc,
     wikipedia_summary |-> wiki, total_results |-> total, search_time |-> time]

\* SearchResponse(query=..., images=[...], web_results=[]) of the image handlers
ImageOnly(query, img) ==
    SearchResponse(query, None, <<>>, <<img>>, None, NoCalc, None, "None", "None")

NoAudio == [present |-> FALSE, of |-> NoneText]

NoResponse ==
    [status |-> 0, model |-> "", response |-> NoneText, needs_search |-> FALSE,
     search_data |-> NoSearchData, audio_url |-> NoAudio]

\* raise HTTPException(status_code=500, ...)
HTTP500 == [NoResponse EXCEPT !.status = 500, !.model = "HTTPException"]

\* ChatResponse(...): response is a required str, so None fails validation
\* and the exception is turned into a 500 by chat's except clause
ChatResponse(response, needs_search, search_data, audio_url) ==
    IF response.kind = "None" THEN HTTP500
    ELSE [status |-> 200, model |-> "ChatResponse", response |-> response,
          needs_search |-> needs_search, search_data |-> search_data, audio_url |-> audio_url]

\* the /search endpoint's own reply
SearchReply(sr) == [NoResponse EXCEPT !.status = 200, !.model = "SearchResponse", !.search_data = sr]

\* generate_audio_for_response: len(None) raises inside the try, giving None
generate_audio_for_response(text) ==
    IF text.kind = "None" THEN NoAudio ELSE [present |-> TRUE, of |-> text]

\* ------------------------------------------------------------------------
\* Bounds and inputs
\* ------------------------------------------------------------------------
\* longest organic_results list the web-search provider returns in the model
MaxOrganic == 2

Messages ==
    {m_hello, m_roman, m_btc_weather, m_weather_london, m_forecast, m_bitcoin_price,
     m_calc, m_div0, m_bad, m_power, m_define, m_word, m_einstein, m_pokemon, m_pikachu,
     m_dog, m_cat, m_joke, m_quote, m_ip, m_draw, m_genimg, m_thank, m_how, m_who,
     m_morning, m_arxiv, m_papers, m_so, m_hotdog, m_many, m_sydney, m_two_cities,
     m_coins, m_gold}

\* num_results of a SearchRequest: Optional[int]
Limit(v) == [none |-> FALSE, v |-> v]

NoLimit == [none |-> TRUE, v |-> 0]

\* /chat always asks for 10; /search is tried with no limit and with a
\* limit below the longest organic_results list
NumResultsChoices == {NoLimit, Limit(1)}

\* one organic result of the web-search provider, with or without "position"
OrganicItems ==
    {[id |-> "a", has_position |-> FALSE, position |-> 0],
     [id |-> "b", has_position |-> TRUE, position |-> 7]}

OrganicLists == UNION {[1..n -> OrganicItems] : n \in 0..MaxOrganic}

\* search.get_dict(): raises, or returns the provider's error dict (neither
\* organic_results nor search_information), or a result dict with
\* search_information and some organic_results
SerpOutcomes ==
    {[raises |-> TRUE, organic |-> <<>>, info |-> FALSE],
     [raises |-> FALSE, organic |-> <<>>, info |-> FALSE]}
    \cup {[raises |-> FALSE, organic |-> l, info |-> TRUE] : l \in OrganicLists}

EmptySerp == [organic |-> <<>>, info |-> FALSE]

\* "usd" and "usd_24h_change" of a coin, in hundredths: 67,123.45 falling
\* by 1.23 %, 0.15 rising by 0.05 %, 1,000.00 unchanged, and both keys left out
QuoteChoices ==
    {<<Number(6712345), Number(-123)>>, <<Number(15), Number(5)>>, <<Number(100000), Number(0)>>,
     <<Missing, Missing>>}

\* the dicts CoinGecko returns for the ids asked: an entry for each of
\* them or for the first of them only, in the order asked
PriceBodies(coin_ids) ==
    {[i \in 1..n |-> Quote(coin_ids[i], c[1], c[2])] : n \in {1, Len(coin_ids)}, c \in QuoteChoices}

\* readings of a current_weather object, in tenths: a positive and a
\* negative one, a four-digit one, and the key left out
Readings == {Number(153), Number(-21), Number(1000), Missing}

\* temperature and windspeed of the current_weather objects Open-Meteo returns
WeatherBodies ==
    {CurrentWeather(t, ws) : t \in Readings, ws \in {Number(87), Missing}}

\* conversation_history of a ChatRequest: Optional[List[Dict[str, str]]] = []
History(turns) == [none |-> FALSE, turns |-> turns]

NoHistory == [none |-> TRUE, turns |-> <<>>]

\* longest conversation history of a request in the model
MaxHistory == 6

\* one entry of the history: user and assistant turns alternate, the content
\* tells the entries apart
Turn(i) == [role |-> IF i % 2 = 1 THEN "user" ELSE "assistant", content |-> <<"turn", DigitChar(i)>>]

Turns(n) == [i \in 1..n |-> Turn(i)]

\* null, empty, shorter than the window and longer than it
HistoryChoices == {NoHistory, History(<<>>), History(Turns(2)), History(Turns(MaxHistory))}

\* ------------------------------------------------------------------------
\* State
\* ------------------------------------------------------------------------
VARIABLES
    endpoint,       \* "chat" or "search": which route received the request
    message,        \* request.message / request.query
    num_results,    \* request.num_results of the SearchRequest
    conversation_history, \* request.conversation_history of the ChatRequest
    pc,             \* where the request's coroutine stands
    calls,          \* provider invocations so far, in order, each with what came back
    intent,         \* chat's intent["needs_search"]: "unset", "search", "conversation"
    calc_result,    \* search's locals
    dict_result,
    serp_data,
    ai_overview,
    images,
    wiki_summary,
    search_result,  \* chat's search_result
    response_text,  \* chat's response_text
    caller,         \* call site of generate_enhanced_response
    resp,           \* what the endpoint returned
    module_state,   \* the module-level objects of server.py, shared by all requests
    suspended       \* the locals of a second request waiting at a step boundary

req == <<endpoint, message, num_results, conversation_history>>

searchv == <<calc_result, dict_result, serp_data, ai_overview, images, wiki_summary>>

chatv == <<intent, search_result, response_text, caller>>

\* everything that belongs to one request
locals == <<endpoint, message, num_results, conversation_history, pc, calls, intent, calc_result, dict_result, serp_data, ai_overview, images, wiki_summary, search_result, response_text, caller, resp>>

\* what lies outside the request a step belongs to
outside == <<module_state, suspended>>

vars == <<endpoint, message, num_results, conversation_history, pc, calls, intent, calc_result, dict_result, serp_data, ai_overview, images, wiki_summary, search_result, response_text, caller, resp, module_state, suspended>>

\* the objects created at import time (server.py 32-51, 138): the clients,
\* the quote list, the calculator with its compiled pattern
ModuleState ==
    [cerebras_client |-> "Cerebras", clients |-> "api_clients", quotes |-> "ProgrammingQuotesClient.quotes",
     calculator |-> "CalculatorService"]

\* no second request
NoRequest == <<>>

\* providers whose call has been issued and has not returned
inflight == {calls[i].provider : i \in {j \in DOMAIN calls : calls[j].status = "pending"}}

Invoked(p) == \E i \in DOMAIN calls : calls[i].provider = p

\* issue a call and suspend at wait
Invoke(p, arg, wait) ==
    /\ calls' = Append(calls, [provider |-> p, arg |-> arg, status |-> "pending", value |-> None])
    /\ pc' = wait

\* a call made and finished without suspending
\* the log keeps a returned value when it is truthy, else None
Logged(v) == IF Truthy(v) THEN v ELSE None

Called(p, arg, v) ==
    calls' = Append(calls, [provider |-> p, arg |-> arg, status |-> "returned", value |-> Logged(v)])

\* a call that raised into its caller
Raised(p, arg) ==
    calls' = Append(calls, [provider |-> p, arg |-> arg, status |-> "raised", value |-> None])

\* the pending call of p returns v
Returned(p, v) ==
    calls' = [i \in DOMAIN calls |->
                IF calls[i].provider = p /\ calls[i].status = "pending"
                THEN [calls[i] EXCEPT !.status = "returned", !.value = Logged(v)]
                ELSE calls[i]]

Reply(r) == resp' = r /\ pc' = "done"

Init ==
    /\ endpoint \in {"chat", "search"}
    /\ message \in Messages
    /\ num_results \in (IF endpoint = "chat" THEN {Limit(10)} ELSE NumResultsChoices)
    /\ conversation_history \in (IF endpoint = "chat" THEN HistoryChoices ELSE {History(<<>>)})
    /\ pc = (IF endpoint = "chat" THEN "handle_pollinations_query" ELSE "search")
    /\ calls = <<>>
    /\ module_state = ModuleState
    /\ suspended = NoRequest
    /\ intent = "unset"
    /\ calc_result = NoCalc
    /\ dict_result = None
    /\ serp_data = EmptySerp
    /\ ai_overview = None
    /\ images = <<>>
    /\ wiki_summary = None
    /\ search_result = NoSearchData
    /\ response_text = NoneText
    /\ caller = ""
    /\ resp = NoResponse

\* ------------------------------------------------------------------------
\* /chat: the handler scan (server.py 613-741).  A handler with an HTTP
\* provider is two steps: up to its await, and from the provider's return
\* through chat's formatting of the result.
\* ------------------------------------------------------------------------
\* variant of handle_pollinations_query that hands over to the weather
\* handler, ahead of crypto, papers and Q&A
handle_pollinations_query_weather_first ==
    /\ pc = "handle_pollinations_query"
    /\ IF pollinations_predicate(message)
       THEN LET prompt == pollinations_prompt(message)
                image_url == PollinationsClient_generate_image_url(prompt)
            IN  /\ Called("pollinations_image", prompt, image_url)
                /\ Reply(ChatResponse(Text("image_generation", "Here's your image: ", image_url), TRUE,
                                      ImageOnly(message, ImageResult(image_url, 512, 512)), NoAudio))
       ELSE /\ pc' = "handle_weather_query"
            /\ UNCHANGED <<calls, resp>>
    /\ UNCHANGED <<req, outside, searchv, chatv>>

handle_pollinations_query ==
    /\ pc = "handle_pollinations_query"
    /\ IF pollinations_predicate(message)
       THEN LET prompt == pollinations_prompt(message)
                image_url == PollinationsClient_generate_image_url(prompt)
            IN  /\ Called("pollinations_image", prompt, image_url)
                /\ Reply(ChatResponse(Text("image_generation", "Here's your image: ", image_url), TRUE,
                                      ImageOnly(message, ImageResult(image_url, 512, 512)), NoAudio))
       ELSE /\ pc' = "handle_crypto_query"
            /\ UNCHANGED <<calls, resp>>
    /\ UNCHANGED <<req, outside, searchv, chatv>>

handle_crypto_query ==
    /\ pc = "handle_crypto_query"
    /\ IF crypto_predicate(message)
       THEN Invoke("coingecko", crypto_coin_ids(message), "await_coingecko")
       ELSE pc' = "handle_arxiv_query" /\ UNCHANGED calls
    /\ UNCHANGED <<req, outside, searchv, chatv, resp>>

\* variant of coingecko_return that goes on to the next handler even when
\* prices came back
coingecko_return_keeps_scanning ==
    /\ pc = "await_coingecko"
    /\ \E o \in TransportOutcomes :
         \E body \in PriceBodies(crypto_coin_ids(message)) :
           Returned("coingecko", CoinGeckoClient_get_price(o, crypto_coin_ids(message), body))
    /\ pc' = "handle_arxiv_query"
    /\ UNCHANGED <<req, outside, searchv, chatv, resp>>

coingecko_return ==
    /\ pc = "await_coingecko"
    /\ \E o \in TransportOutcomes, body \in PriceBodies(crypto_coin_ids(message)) :
         LET prices == CoinGeckoClient_get_price(o, crypto_coin_ids(message), body)
         IN  /\ Returned("coingecko", prices)
             /\ IF Truthy(prices)
                THEN Reply(ChatResponse(Text("crypto", CryptoText(prices.q), prices), FALSE, NoSearchData, NoAudio))
                ELSE pc' = "handle_arxiv_query" /\ UNCHANGED resp
    /\ UNCHANGED <<req, outside, searchv, chatv>>

handle_arxiv_query ==
    /\ pc = "handle_arxiv_query"
    /\ IF arxiv_predicate(message) /\ arxiv_query(message) # <<>>
       THEN Invoke("arxiv", arxiv_query(message), "await_arxiv")
       ELSE pc' = "handle_stackoverflow_query" /\ UNCHANGED calls
    /\ UNCHANGED <<req, outside, searchv, chatv, resp>>

arxiv_return ==
    /\ pc = "await_arxiv"
    /\ \E o \in TransportOutcomes :
         LET papers == ArxivClient_search(o, arxiv_query(message))
         IN  /\ Returned("arxiv", papers)
             /\ IF Truthy(papers)
                THEN Reply(ChatResponse(Text("arxiv", "**Research Papers:**", papers), FALSE, NoSearchData, NoAudio))
                ELSE pc' = "handle_stackoverflow_query" /\ UNCHANGED resp
    /\ UNCHANGED <<req, outside, searchv, chatv>>

handle_stackoverflow_query ==
    /\ pc = "handle_stackoverflow_query"
    /\ IF stackoverflow_predicate(message) /\ stackoverflow_query(message) # <<>>
       THEN Invoke("stackexchange", stackoverflow_query(message), "await_stackexchange")
       ELSE pc' = "handle_weather_query" /\ UNCHANGED calls
    /\ UNCHANGED <<req, outside, searchv, chatv, resp>>

stackexchange_return ==
    /\ pc = "await_stackexchange"
    /\ \E o \in TransportOutcomes :
         LET questions == StackExchangeClient_search(o, stackoverflow_query(message))
         IN  /\ Returned("stackexchange", questions)
             /\ IF Truthy(questions)
                THEN Reply(ChatResponse(Text("stackoverflow", "**Programming Questions:**", questions), FALSE, NoSearchData, NoAudio))
                ELSE pc' = "handle_weather_query" /\ UNCHANGED resp
    /\ UNCHANGED <<req, outside, searchv, chatv>>

\* variant of handle_weather_query that keeps the city last asked about on
\* the module-level client
handle_weather_query_remembers_city ==
    /\ pc = "handle_weather_query"
    /\ IF weather_predicate(message)
       THEN /\ Invoke("openmeteo", weather_location(message), "await_openmeteo")
            /\ module_state' = [module_state EXCEPT !.clients = "api_clients, openmeteo.last_location set"]
       ELSE pc' = "handle_pokemon_query" /\ UNCHANGED <<calls, module_state>>
    /\ UNCHANGED <<req, suspended, searchv, chatv, resp>>

handle_weather_query ==
    /\ pc = "handle_weather_query"
    /\ IF weather_predicate(message)
       THEN Invoke("openmeteo", weather_location(message), "await_openmeteo")
       ELSE pc' = "handle_pokemon_query" /\ UNCHANGED calls
    /\ UNCHANGED <<req, outside, searchv, chatv, resp>>

\* variant of openmeteo_return that gives up the scan when no weather came back
openmeteo_return_abandons_scan ==
    /\ pc = "await_openmeteo"
    /\ \E o \in TransportOutcomes, w \in WeatherBodies :
         LET weather_data == OpenMeteoClient_get_weather(o, weather_location(message), w)
         IN  /\ Returned("openmeteo", weather_data)
             /\ IF Truthy(weather_data)
                THEN Reply(ChatResponse(Text("weather", WeatherText(weather_location(message), weather_data.q[1]),
                                             weather_data), FALSE, NoSearchData, NoAudio))
                ELSE pc' = "determine_intent" /\ UNCHANGED resp
    /\ UNCHANGED <<req, outside, searchv, chatv>>

\* "empty" is a 200 body without current_weather
openmeteo_return ==
    /\ pc = "await_openmeteo"
    /\ \E o \in TransportOutcomes, w \in WeatherBodies :
         LET weather_data == OpenMeteoClient_get_weather(o, weather_location(message), w)
         IN  /\ Returned("openmeteo", weather_data)
             /\ IF Truthy(weather_data)
                THEN Reply(ChatResponse(Text("weather", WeatherText(weather_location(message), weather_data.q[1]),
                                             weather_data), FALSE, NoSearchData, NoAudio))
                ELSE pc' = "handle_pokemon_query" /\ UNCHANGED resp
    /\ UNCHANGED <<req, outside, searchv, chatv>>

\* variant of handle_pokemon_query that looks the residue up even when it
\* is empty
handle_pokemon_query_empty_name ==
    /\ pc = "handle_pokemon_query"
    /\ IF pokemon_predicate(message)
       THEN Invoke("pokeapi", pokemon_name(message), "await_pokeapi")
       ELSE pc' = "handle_dog_query" /\ UNCHANGED calls
    /\ UNCHANGED <<req, outside, searchv, chatv, resp>>

handle_pokemon_query ==
    /\ pc = "handle_pokemon_query"
    /\ IF pokemon_predicate(message) /\ pokemon_name(message) # <<>>
       THEN Invoke("pokeapi", pokemon_name(message), "await_pokeapi")
       ELSE pc' = "handle_dog_query" /\ UNCHANGED calls
    /\ UNCHANGED <<req, outside, searchv, chatv, resp>>

\* sprites.front_default may be null: the reply then carries no image
pokeapi_return ==
    /\ pc = "await_pokeapi"
    /\ \E o \in TransportOutcomes, sprite \in BOOLEAN :
         LET pokemon_data == PokeAPIClient_get_pokemon(o, pokemon_name(message), sprite)
             response_text_ == Text("pokemon", "Height: | Weight: | Types:", pokemon_data)
             sprite_url == Data("pokeapi_sprite", pokemon_name(message))
         IN  /\ Returned("pokeapi", pokemon_data)
             /\ IF Truthy(pokemon_data)
                THEN IF sprite
                     THEN Reply(ChatResponse(response_text_, TRUE, ImageOnly(message, ImageResult(sprite_url, 96, 96)), NoAudio))
                     ELSE Reply(ChatResponse(response_text_, FALSE, NoSearchData, NoAudio))
                ELSE pc' = "handle_dog_query" /\ UNCHANGED resp
    /\ UNCHANGED <<req, outside, searchv, chatv>>

\* variant of handle_dog_query that starts the call and moves on to the
\* next handler without awaiting it
handle_dog_query_no_await ==
    /\ pc = "handle_dog_query"
    /\ IF dog_predicate(message)
       THEN Invoke("dogapi", <<>>, "handle_cat_query")
       ELSE pc' = "handle_cat_query" /\ UNCHANGED calls
    /\ UNCHANGED <<req, outside, searchv, chatv, resp>>

handle_dog_query ==
    /\ pc = "handle_dog_query"
    /\ IF dog_predicate(message)
       THEN Invoke("dogapi", <<>>, "await_dogapi")
       ELSE pc' = "handle_cat_query" /\ UNCHANGED calls
    /\ UNCHANGED <<req, outside, searchv, chatv, resp>>

\* variant of dogapi_return that attaches the image without setting needs_search
dogapi_return_flag_unset ==
    /\ pc = "await_dogapi"
    /\ \E o \in TransportOutcomes :
         LET image_url == DogAPIClient_get_random_dog(o)
         IN  /\ Returned("dogapi", image_url)
             /\ IF Truthy(image_url)
                THEN Reply(ChatResponse(Text("dog", "Here's a cute dog for you!", image_url), FALSE,
                                        ImageOnly(message, ImageResult(image_url, 400, 400)), NoAudio))
                ELSE pc' = "handle_cat_query" /\ UNCHANGED resp
    /\ UNCHANGED <<req, outside, searchv, chatv>>

dogapi_return ==
    /\ pc = "await_dogapi"
    /\ \E o \in TransportOutcomes :
         LET image_url == DogAPIClient_get_random_dog(o)
         IN  /\ Returned("dogapi", image_url)
             /\ IF Truthy(image_url)
                THEN Reply(ChatResponse(Text("dog", "Here's a cute dog for you!", image_url), TRUE,
                                        ImageOnly(message, ImageResult(image_url, 400, 400)), NoAudio))
                ELSE pc' = "handle_cat_query" /\ UNCHANGED resp
    /\ UNCHANGED <<req, outside, searchv, chatv>>

handle_cat_query ==
    /\ pc = "handle_cat_query"
    /\ IF cat_predicate(message)
       THEN Invoke("catapi", <<>>, "await_catapi")
       ELSE pc' = "handle_joke_query" /\ UNCHANGED calls
    /\ UNCHANGED <<req, outside, searchv, chatv, resp>>

\* variant of catapi_return in which the client lets a transport exception
\* out, which chat's except clause turns into a 500
catapi_return_propagates ==
    /\ pc = "await_catapi"
    /\ \E o \in TransportOutcomes :
         LET image_url == CatAPIClient_get_random_cat(o)
         IN  IF o = "error"
             THEN /\ calls' = [i \in DOMAIN calls |->
                                 IF calls[i].provider = "catapi"
                                 THEN [calls[i] EXCEPT !.status = "raised"] ELSE calls[i]]
                  /\ Reply(HTTP500)
             ELSE /\ Returned("catapi", image_url)
                  /\ IF Truthy(image_url)
                     THEN Reply(ChatResponse(Text("cat", "Here's a cute cat for you!", image_url), TRUE,
                                             ImageOnly(message, ImageResult(image_url, 400, 400)), NoAudio))
                     ELSE pc' = "handle_joke_query" /\ UNCHANGED resp
    /\ UNCHANGED <<req, outside, searchv, chatv>>

catapi_return ==
    /\ pc = "await_catapi"
    /\ \E o \in TransportOutcomes :
         LET image_url == CatAPIClient_get_random_cat(o)
         IN  /\ Returned("catapi", image_url)
             /\ IF Truthy(image_url)
                THEN Reply(ChatResponse(Text("cat", "Here's a cute cat for you!", image_url), TRUE,
                                        ImageOnly(message, ImageResult(image_url, 400, 400)), NoAudio))
                ELSE pc' = "handle_joke_query" /\ UNCHANGED resp
    /\ UNCHANGED <<req, outside, searchv, chatv>>

handle_joke_query ==
    /\ pc = "handle_joke_query"
    /\ IF joke_predicate(message)
       THEN Invoke("chucknorris", <<>>, "await_chucknorris")
       ELSE pc' = "handle_quote_query" /\ UNCHANGED calls
    /\ UNCHANGED <<req, outside, searchv, chatv, resp>>

chucknorris_return ==
    /\ pc = "await_chucknorris"
    /\ \E o \in TransportOutcomes :
         LET joke == ChuckNorrisClient_get_random_joke(o)
         IN  /\ Returned("chucknorris", joke)
             /\ IF Truthy(joke)
                THEN Reply(ChatResponse(Text("joke", "", joke), FALSE, NoSearchData, NoAudio))
                ELSE pc' = "handle_quote_query" /\ UNCHANGED resp
    /\ UNCHANGED <<req, outside, searchv, chatv>>

\* get_random_quote has no await: the handler runs through in one step
handle_quote_query ==
    /\ pc = "handle_quote_query"
    /\ IF quote_predicate(message)
       THEN LET quote_data == ProgrammingQuotesClient_get_random_quote
            IN  /\ Called("programming_quotes", <<>>, quote_data)
                /\ Reply(ChatResponse(Text("quote", "", quote_data), FALSE, NoSearchData, NoAudio))
       ELSE /\ pc' = "handle_ip_query"
            /\ UNCHANGED <<calls, resp>>
    /\ UNCHANGED <<req, outside, searchv, chatv>>

handle_ip_query ==
    /\ pc = "handle_ip_query"
    /\ IF ip_predicate(message)
       THEN Invoke("ipinfo", <<>>, "await_ipinfo")
       ELSE pc' = "determine_intent" /\ UNCHANGED calls
    /\ UNCHANGED <<req, outside, searchv, chatv, resp>>

ipinfo_return ==
    /\ pc = "await_ipinfo"
    /\ \E o \in TransportOutcomes :
         LET ip_data == IPInfoClient_get_ip_info(o)
         IN  /\ Returned("ipinfo", ip_data)
             /\ IF Truthy(ip_data)
                THEN Reply(ChatResponse(Text("ip_info", "**IP Information**", ip_data), FALSE, NoSearchData, NoAudio))
                ELSE pc' = "determine_intent" /\ UNCHANGED resp
    /\ UNCHANGED <<req, outside, searchv, chatv>>

\* ------------------------------------------------------------------------
\* /chat after the scan: intent, conversation (server.py 743-754)
\* ------------------------------------------------------------------------
chat_determine_intent ==
    /\ pc = "determine_intent"
    /\ IF determine_intent(message)
       THEN /\ intent' = "search"
            /\ pc' = "search"
            /\ UNCHANGED caller
       ELSE /\ intent' = "conversation"
            /\ caller' = "conversation"
            /\ pc' = "generate_enhanced_response"
    /\ UNCHANGED <<req, outside, calls, searchv, search_result, response_text, resp>>

\* ------------------------------------------------------------------------
\* generate_enhanced_response (server.py 538-587)
\* ------------------------------------------------------------------------
\* the value is handed back to the call site in chat, which builds the reply:
\* the conversation branch (748-754) or the enrichment branch (802-821)
\* system_content: the fixed prompt, with the composed text appended when
\* the call enriches a search
SystemMessage ==
    [role |-> "system",
     content |-> IF caller = "enrich" THEN <<"You are Gerch", "Additional context from search">>
                 ELSE <<"You are Gerch">>]

UserMessage == [role |-> "user", content |-> message]

\* history[-5:]
HistoryWindow == 5

LastEntries(history, n) ==
    SubSeq(history, IF Len(history) > n THEN Len(history) - n + 1 ELSE 1, Len(history))

\* messages: the system message, history[-5:], the current message
ChatMessages == <<SystemMessage>> \o LastEntries(conversation_history.turns, HistoryWindow) \o <<UserMessage>>

\* the "messages" of the JSON body PollinationsClient.generate_text posts
PollinationsMessages == <<SystemMessage, UserMessage>>

ReturnToChat(v) ==
    IF caller = "conversation"
    THEN /\ response_text' = v
         /\ Reply(ChatResponse(v, FALSE, NoSearchData, generate_audio_for_response(v)))
    ELSE LET t == IF TextTruthy(v) THEN v ELSE response_text
         IN  /\ response_text' = t
             /\ Reply(ChatResponse(t, TRUE, search_result, generate_audio_for_response(t)))

\* variant of generate_enhanced_response that consults the rule-based
\* replies before any backend
generate_enhanced_response_rules_first ==
    /\ pc = "generate_enhanced_response"
    /\ IF generate_fallback_response(message) # APOLOGY \/ conversation_history.none
       THEN /\ ReturnToChat(Canned(generate_fallback_response(message)))
            /\ UNCHANGED calls
       ELSE /\ Invoke("pollinations_text", PollinationsMessages, "await_pollinations_text")
            /\ UNCHANGED <<response_text, resp>>
    /\ UNCHANGED <<req, outside, searchv, intent, search_result, caller>>

\* up to the await of pollinations.generate_text; history[-5:] raises on a
\* null history, and the outer except leads to the rule-based reply
generate_enhanced_response ==
    /\ pc = "generate_enhanced_response"
    /\ IF conversation_history.none
       THEN /\ ReturnToChat(Canned(generate_fallback_response(message)))
            /\ UNCHANGED calls
       ELSE /\ Invoke("pollinations_text", PollinationsMessages, "await_pollinations_text")
            /\ UNCHANGED <<response_text, resp>>
    /\ UNCHANGED <<req, outside, searchv, intent, search_result, caller>>

\* variant of pollinations_text_return that asks Pollinations a second time
\* when the first answer carries no text
pollinations_text_return_retries ==
    /\ pc = "await_pollinations_text"
    /\ \E o \in TransportOutcomes :
         LET pollinations_response == PollinationsClient_generate_text(o, message)
         IN  /\ Returned("pollinations_text", pollinations_response)
             /\ IF Truthy(pollinations_response)
                THEN ReturnToChat(Text("llm", "", pollinations_response))
                ELSE /\ pc' = IF Cardinality({i \in DOMAIN calls : calls[i].provider = "pollinations_text"}) < 2
                              THEN "generate_enhanced_response" ELSE "cerebras_fallback"
                     /\ UNCHANGED <<response_text, resp>>
    /\ UNCHANGED <<req, outside, searchv, intent, search_result, caller>>

pollinations_text_return ==
    /\ pc = "await_pollinations_text"
    /\ \E o \in TransportOutcomes :
         LET pollinations_response == PollinationsClient_generate_text(o, message)
         IN  /\ Returned("pollinations_text", pollinations_response)
             /\ IF Truthy(pollinations_response)
                THEN ReturnToChat(Text("llm", "", pollinations_response))
                ELSE /\ pc' = "cerebras_fallback"
                     /\ UNCHANGED <<response_text, resp>>
    /\ UNCHANGED <<req, outside, searchv, intent, search_result, caller>>

\* variant of cerebras_fallback that returns None instead of the rule-based
\* reply when the SDK raises
cerebras_fallback_no_rules ==
    /\ pc = "cerebras_fallback"
    /\ \E o \in CompletionOutcomes :
         IF o = "ok"
         THEN /\ Called("cerebras", ChatMessages, Data("cerebras", message))
              /\ ReturnToChat(Text("llm", "", Data("cerebras", message)))
         ELSE IF o = "empty"
         THEN /\ Called("cerebras", ChatMessages, Empty("cerebras"))
              /\ ReturnToChat(EmptyText)
         ELSE IF o = "none"
         THEN /\ Called("cerebras", ChatMessages, None)
              /\ ReturnToChat(NoneText)
         ELSE /\ Raised("cerebras", ChatMessages)
              /\ ReturnToChat(NoneText)
    /\ UNCHANGED <<req, outside, searchv, intent, search_result, caller>>

\* cerebras_client.chat.completions.create is a blocking call: it is issued
\* and answered within one step; when it raises, the rule-based reply is used
cerebras_fallback ==
    /\ pc = "cerebras_fallback"
    /\ \E o \in CompletionOutcomes :
         IF o = "ok"
         THEN /\ Called("cerebras", ChatMessages, Data("cerebras", message))
              /\ ReturnToChat(Text("llm", "", Data("cerebras", message)))
         ELSE IF o = "empty"
         THEN /\ Called("cerebras", ChatMessages, Empty("cerebras"))
              /\ ReturnToChat(EmptyText)
         ELSE IF o = "none"
         THEN /\ Called("cerebras", ChatMessages, None)
              /\ ReturnToChat(NoneText)
         ELSE /\ Raised("cerebras", ChatMessages)
              /\ ReturnToChat(Canned(generate_fallback_response(message)))
    /\ UNCHANGED <<req, outside, searchv, intent, search_result, caller>>

\* ------------------------------------------------------------------------
\* search (server.py 828-903)
\* ------------------------------------------------------------------------
\* calculator, then the dictionary lookup up to its await
search_begin ==
    /\ pc = "search"
    /\ calc_result' = (IF is_valid_expression(message) THEN calculate(message) ELSE NoCalc)
    /\ LET words == Split(message)
       IN  IF Len(words) = 1
           THEN Invoke("dictionary", words[1], "await_dictionary")
           ELSE pc' = "gather" /\ UNCHANGED calls
    /\ UNCHANGED <<req, outside, dict_result, serp_data, ai_overview, images, wiki_summary, chatv, resp>>

dictionary_return ==
    /\ pc = "await_dictionary"
    /\ \E o \in TransportOutcomes :
         LET d == get_dictionary_definition(o, Split(message)[1])
         IN  /\ Returned("dictionary", d)
             /\ dict_result' = d
    /\ pc' = "gather"
    /\ UNCHANGED <<req, outside, calc_result, serp_data, ai_overview, images, wiki_summary, chatv, resp>>

\* variant of serp_search that lets the provider's exception end the request
serp_search_propagates ==
    /\ pc = "gather"
    /\ IF num_results.none
       THEN /\ serp_data' = EmptySerp
            /\ pc' = "gather_ai_overview"
            /\ UNCHANGED <<calls, resp>>
       ELSE \E o \in SerpOutcomes :
              IF o.raises
              THEN /\ Raised("serpapi", message)
                   /\ Reply(HTTP500)
                   /\ UNCHANGED serp_data
              ELSE /\ Called("serpapi", message,
                             IF o.info THEN Data("serpapi", o.organic) ELSE None)
                   /\ serp_data' = [organic |-> o.organic, info |-> o.info]
                   /\ pc' = "gather_ai_overview"
                   /\ UNCHANGED resp
    /\ UNCHANGED <<req, outside, calc_result, dict_result, ai_overview, images, wiki_summary, chatv>>

\* first task of the gather: serp_search has no await, it runs to its end.
\* min(None, 20) raises before the provider is called.
serp_search ==
    /\ pc = "gather"
    /\ IF num_results.none
       THEN /\ serp_data' = EmptySerp
            /\ UNCHANGED calls
       ELSE \E o \in SerpOutcomes :
              /\ IF o.raises THEN Raised("serpapi", message)
                             ELSE Called("serpapi", message,
                                         IF o.info THEN Data("serpapi", o.organic) ELSE None)
              /\ serp_data' = [organic |-> o.organic, info |-> o.info]
    /\ pc' = "gather_ai_overview"
    /\ UNCHANGED <<req, outside, calc_result, dict_result, ai_overview, images, wiki_summary, chatv, resp>>

\* second task: get_ai_overview, a blocking Cerebras call
search_ai_overview ==
    /\ pc = "gather_ai_overview"
    /\ \E o \in CompletionOutcomes :
         LET v == get_ai_overview(o, message)
         IN  /\ IF o = "raise" THEN Raised("cerebras", message) ELSE Called("cerebras", message, v)
             /\ ai_overview' = v
    /\ pc' = "gather_pixabay"
    /\ UNCHANGED <<req, outside, calc_result, dict_result, serp_data, images, wiki_summary, chatv, resp>>

\* third and fourth task: each runs up to its HTTP await
search_pixabay_start ==
    /\ pc = "gather_pixabay"
    /\ Invoke("pixabay", message, "gather_wikipedia")
    /\ UNCHANGED <<req, outside, searchv, chatv, resp>>

search_wikipedia_start ==
    /\ pc = "gather_wikipedia"
    /\ Invoke("wikipedia", message, "gather_wait")
    /\ UNCHANGED <<req, outside, searchv, chatv, resp>>

\* variant of pixabay_return that files the result by arrival: arriving
\* after the summary, it takes the summary's place
pixabay_return_by_arrival ==
    /\ pc = "gather_wait"
    /\ "pixabay" \in inflight
    /\ \E o \in TransportOutcomes :
         LET hits == search_pixabay_images(o, message)
         IN  /\ Returned("pixabay", IF hits = <<>> THEN None ELSE hits[1].url)
             /\ IF "wikipedia" \in inflight
                THEN images' = hits /\ UNCHANGED wiki_summary
                ELSE wiki_summary' = (IF hits = <<>> THEN None ELSE hits[1].url) /\ UNCHANGED images
    /\ UNCHANGED <<req, outside, pc, calc_result, dict_result, serp_data, ai_overview, chatv, resp>>

pixabay_return ==
    /\ pc = "gather_wait"
    /\ "pixabay" \in inflight
    /\ \E o \in TransportOutcomes :
         LET hits == search_pixabay_images(o, message)
         IN  /\ Returned("pixabay", IF hits = <<>> THEN None ELSE hits[1].url)
             /\ images' = hits
    /\ UNCHANGED <<req, outside, pc, calc_result, dict_result, serp_data, ai_overview, wiki_summary, chatv, resp>>

\* variant of wikipedia_return in which a failed summary blanks the images
wikipedia_return_blanks_images ==
    /\ pc = "gather_wait"
    /\ "wikipedia" \in inflight
    /\ \E o \in TransportOutcomes :
         LET s == get_wikipedia_summary(o, message)
         IN  /\ Returned("wikipedia", s)
             /\ wiki_summary' = s
             /\ images' = IF Truthy(s) THEN images ELSE <<>>
    /\ UNCHANGED <<req, outside, pc, calc_result, dict_result, serp_data, ai_overview, chatv, resp>>

wikipedia_return ==
    /\ pc = "gather_wait"
    /\ "wikipedia" \in inflight
    /\ \E o \in TransportOutcomes :
         LET s == get_wikipedia_summary(o, message)
         IN  /\ Returned("wikipedia", s)
             /\ wiki_summary' = s
    /\ UNCHANGED <<req, outside, pc, calc_result, dict_result, serp_data, ai_overview, images, chatv, resp>>

\* variant of WebResults that numbers from the zero-based index
WebResults_zero_based(organic) ==
    [i \in 1..Len(organic) |->
        [title |-> organic[i].id,
         position |-> IF organic[i].has_position THEN organic[i].position ELSE i - 1]]

\* SearchResult(..., position=result.get("position", idx + 1))
WebResults(organic) ==
    [i \in 1..Len(organic) |->
        [title |-> organic[i].id,
         position |-> IF organic[i].has_position THEN organic[i].position ELSE i]]

\* str(search_info.get(key, ""))
SearchInfo(sd) == IF sd.info THEN "info" ELSE ""

\* the gather is complete: assemble the SearchResponse (869-899)
search_assemble ==
    /\ pc = "gather_wait"
    /\ inflight = {}
    /\ LET sr == SearchResponse(message, ai_overview, WebResults(serp_data.organic), images,
                                dict_result, calc_result, wiki_summary,
                                SearchInfo(serp_data), SearchInfo(serp_data))
       IN  IF endpoint = "search"
           THEN /\ Reply(SearchReply(sr))
                /\ UNCHANGED search_result
           ELSE /\ search_result' = sr
                /\ pc' = "compose"
                /\ UNCHANGED resp
    /\ UNCHANGED <<req, outside, calls, searchv, intent, response_text, caller>>

\* ------------------------------------------------------------------------
\* /chat: composing from the aggregated result (server.py 761-821)
\* ------------------------------------------------------------------------
GENERIC == "I found some information, but let me show you what I discovered."

\* variant of ComposeText that prefers the dictionary to the calculator
ComposeText_dictionary_first(sr) ==
    IF Truthy(sr.dictionary) THEN Text("dictionary", "", sr.dictionary)
    ELSE IF sr.calculator_result.present /\ sr.calculator_result.success
    THEN Text("calculator", "The answer is ", sr.calculator_result)
    ELSE IF Truthy(sr.wikipedia_summary) THEN Text("wikipedia", "", sr.wikipedia_summary)
    ELSE IF sr.web_results # <<>> THEN Text("web_snippet", "Based on my search: ", sr.web_results[1])
    ELSE Text("generic", GENERIC, None)

ComposeText(sr) ==
    IF sr.calculator_result.present /\ sr.calculator_result.success
    THEN Text("calculator", "The answer is ", sr.calculator_result)
    ELSE IF Truthy(sr.dictionary) THEN Text("dictionary", "", sr.dictionary)
    ELSE IF Truthy(sr.wikipedia_summary) THEN Text("wikipedia", "", sr.wikipedia_summary)
    ELSE IF sr.web_results # <<>> THEN Text("web_snippet", "Based on my search: ", sr.web_results[1])
    ELSE Text("generic", GENERIC, None)

\* the two "pass" branches that keep the composed text
KeepsSimpleResponse(sr) ==
    \/ sr.calculator_result.present /\ ~sr.calculator_result.success
    \/ Truthy(sr.dictionary)

chat_compose ==
    /\ pc = "compose"
    /\ LET t == ComposeText(search_result)
       IN  /\ response_text' = t
           /\ IF KeepsSimpleResponse(search_result)
              THEN /\ Reply(ChatResponse(t, TRUE, search_result, generate_audio_for_response(t)))
                   /\ UNCHANGED caller
              ELSE /\ caller' = "enrich"
                   /\ pc' = "generate_enhanced_response"
                   /\ UNCHANGED resp
    /\ UNCHANGED <<req, outside, calls, searchv, intent, search_result>>

Next ==
    \/ handle_pollinations_query
    \/ handle_crypto_query \/ coingecko_return
    \/ handle_arxiv_query \/ arxiv_return
    \/ handle_stackoverflow_query \/ stackexchange_return
    \/ handle_weather_query \/ openmeteo_return
    \/ handle_pokemon_query \/ pokeapi_return
    \/ handle_dog_query \/ dogapi_return
    \/ handle_cat_query \/ catapi_return
    \/ handle_joke_query \/ chucknorris_return
    \/ handle_quote_query
    \/ handle_ip_query \/ ipinfo_return
    \/ chat_determine_intent
    \/ generate_enhanced_response \/ pollinations_text_return \/ cerebras_fallback
    \/ search_begin \/ dictionary_return
    \/ serp_search \/ search_ai_overview
    \/ search_pixabay_start \/ search_wikipedia_start
    \/ pixabay_return \/ wikipedia_return
    \/ search_assemble
    \/ chat_compose

Spec == Init /\ [][Next]_vars

\* ------------------------------------------------------------------------
\* Properties of the handler scan
\* ------------------------------------------------------------------------
\* the registry order the specification gives: image generation, crypto,
\* papers, Q&A, weather, creature, pet (dog, cat), joke, quote, IP
ScanProviders ==
    <<"pollinations_image", "coingecko", "arxiv", "stackexchange", "openmeteo", "pokeapi",
      "dogapi", "catapi", "chucknorris", "programming_quotes", "ipinfo">>

\* the kind of reply each handler of the registry builds
ScanKinds ==
    <<"image_generation", "crypto", "arxiv", "stackoverflow", "weather", "pokemon",
      "dog", "cat", "joke", "quote", "ip_info">>

\* the control points that belong to each handler of the registry
ScanPcs ==
    <<{"handle_pollinations_query"}, {"handle_crypto_query", "await_coingecko"},
      {"handle_arxiv_query", "await_arxiv"}, {"handle_stackoverflow_query", "await_stackexchange"},
      {"handle_weather_query", "await_openmeteo"}, {"handle_pokemon_query", "await_pokeapi"},
      {"handle_dog_query", "await_dogapi"}, {"handle_cat_query", "await_catapi"},
      {"handle_joke_query", "await_chucknorris"}, {"handle_quote_query"},
      {"handle_ip_query", "await_ipinfo"}>>

InScan(p) == \E k \in DOMAIN ScanProviders : ScanProviders[k] = p

Rank(p) == CHOOSE k \in DOMAIN ScanProviders : ScanProviders[k] = p

\* the handler the request stands at; one past the registry once the scan is over
ScanStage ==
    IF \E k \in DOMAIN ScanPcs : pc \in ScanPcs[k]
    THEN CHOOSE k \in DOMAIN ScanPcs : pc \in ScanPcs[k]
    ELSE Len(ScanPcs) + 1

GotData(i) == calls[i].status = "returned" /\ calls[i].value.kind = "data"

NoData(i) == calls[i].status \in {"returned", "raised"} /\ calls[i].value.kind # "data"

HandlerHit == \E i \in DOMAIN calls : InScan(calls[i].provider) /\ GotData(i)

\* handler k of the registry applies to the message: its predicate matches
\* and its extractor leaves something to ask the provider for
Applies(k) ==
    CASE k = 1 -> pollinations_predicate(message)
      [] k = 2 -> crypto_predicate(message)
      [] k = 3 -> arxiv_predicate(message) /\ arxiv_query(message) # <<>>
      [] k = 4 -> stackoverflow_predicate(message) /\ stackoverflow_query(message) # <<>>
      [] k = 5 -> weather_predicate(message)
      [] k = 6 -> pokemon_predicate(message) /\ pokemon_name(message) # <<>>
      [] k = 7 -> dog_predicate(message)
      [] k = 8 -> cat_predicate(message)
      [] k = 9 -> joke_predicate(message)
      [] k = 10 -> quote_predicate(message)
      [] k = 11 -> ip_predicate(message)

\* C1: the handlers are tried in the registry order, and the first one whose
\* provider returns data ends the request: its reply is built from that data
\* and sent at once, no later handler is tried, no intent is classified and
\* neither the aggregator nor the language model is called.
HandlerFirstMatchWins ==
    /\ \A i, j \in DOMAIN calls :
         (i < j /\ InScan(calls[i].provider) /\ InScan(calls[j].provider))
            => Rank(calls[i].provider) < Rank(calls[j].provider)
    /\ \A i \in DOMAIN calls :
         (InScan(calls[i].provider) /\ GotData(i)) =>
            /\ i = Len(calls)
            /\ pc = "done"
            /\ intent = "unset"
            /\ resp.status = 200
            /\ resp.model = "ChatResponse"
            /\ resp.response.kind = ScanKinds[Rank(calls[i].provider)]
            /\ resp.response.v = calls[i].value

\* an earlier handler missed, a later one answered
FirstMatchAfterMisses ==
    /\ pc = "done"
    /\ Len(calls) >= 3
    /\ InScan(calls[1].provider) /\ NoData(1)
    /\ InScan(calls[2].provider) /\ NoData(2)
    /\ InScan(calls[Len(calls)].provider) /\ GotData(Len(calls))
    /\ resp.response.kind = ScanKinds[Rank(calls[Len(calls)].provider)]

\* C2: a handler whose provider returns no data does not end the request and
\* raises no error: the scan goes on with the next handler, and when no
\* handler produced data the request reaches intent classification, every
\* applicable handler having been tried.
HandlerMissFallsThrough ==
    /\ \A i \in DOMAIN calls :
         (InScan(calls[i].provider) /\ NoData(i)) =>
            /\ ScanStage > Rank(calls[i].provider)
            /\ pc = "done" => (intent # "unset" \/ \E j \in DOMAIN calls : j > i /\ InScan(calls[j].provider) /\ GotData(j))
    /\ (endpoint = "chat" /\ pc = "done" /\ ~HandlerHit) => intent # "unset"
    /\ pc = "determine_intent" =>
          \A k \in DOMAIN ScanProviders :
             Applies(k) => \E i \in DOMAIN calls : calls[i].provider = ScanProviders[k] /\ NoData(i)
    /\ resp.status = 500 => intent # "unset"

\* several handlers missed and the request was classified and answered
MissesThenClassified ==
    /\ endpoint = "chat"
    /\ pc = "done"
    /\ intent = "search"
    /\ resp.status = 200
    /\ Cardinality({i \in DOMAIN calls : InScan(calls[i].provider) /\ NoData(i)}) >= 3

BothCryptoAndWeather == endpoint = "chat" /\ crypto_predicate(message) /\ weather_predicate(message)

\* C3 as stated: a message matching both the crypto and the weather predicate
\* is answered by the crypto handler.
CryptoAnswersWhenBothMatch ==
    (BothCryptoAndWeather /\ pc = "done") => (resp.status = 200 /\ resp.response.kind = "crypto")

\* C3: for a message matching both the crypto and the weather predicate the
\* crypto handler is tried first; when the price provider returns data the
\* reply is the crypto one and the weather provider is never called; the
\* weather handler is reached only after the price provider returned no data.
CryptoTriedBeforeWeather ==
    BothCryptoAndWeather =>
        /\ Invoked("openmeteo") =>
              \E i \in DOMAIN calls : calls[i].provider = "coingecko" /\ NoData(i)
        /\ (\E i \in DOMAIN calls : calls[i].provider = "coingecko" /\ GotData(i)) =>
              /\ ~Invoked("openmeteo")
              /\ resp.status = 200
              /\ resp.response.kind = "crypto"
        /\ (pc = "done" /\ resp.response.kind = "weather") =>
              \E i \in DOMAIN calls : calls[i].provider = "coingecko" /\ NoData(i)
        /\ (pc = "done" /\ ~pollinations_predicate(message)) => Invoked("coingecko")

\* both predicates match and prices came back
CryptoWinsOverWeather ==
    /\ BothCryptoAndWeather
    /\ weather_location(message) = n_London
    /\ pc = "done"
    /\ resp.response.kind = "crypto"
    /\ ~Invoked("openmeteo")

\* ------------------------------------------------------------------------
\* Properties of the conversation path
\* ------------------------------------------------------------------------
\* every language-model call made so far failed: the text backend gave no
\* text and the completion SDK raised
LLMCallsFailed ==
    \A i \in DOMAIN calls :
        /\ calls[i].provider = "pollinations_text" => NoData(i)
        /\ calls[i].provider = "cerebras" => calls[i].status = "raised"

\* C4: when handler providers and language-model calls fail by being
\* unavailable, the chat endpoint still answers with a ChatResponse carrying
\* a text, never with an error.
UnavailabilityNeverSurfaces ==
    (endpoint = "chat" /\ pc = "done" /\ LLMCallsFailed) =>
        /\ resp.status = 200
        /\ resp.model = "ChatResponse"
        /\ TextTruthy(resp.response)

\* a handler provider was down and so was every language-model backend
AnsweredWithEverythingDown ==
    /\ endpoint = "chat"
    /\ pc = "done"
    /\ LLMCallsFailed
    /\ \E i \in DOMAIN calls : InScan(calls[i].provider) /\ NoData(i)
    /\ \E i \in DOMAIN calls : calls[i].provider = "cerebras"
    /\ \E i \in DOMAIN calls : calls[i].provider = "pollinations_text"
    /\ resp.status = 200

\* C5: the conversation path always ends in a non-empty reply.
ConversationReplyNonEmpty ==
    (endpoint = "chat" /\ pc = "done" /\ intent = "conversation") =>
        (resp.status = 200 /\ TextTruthy(resp.response))

MatchesCannedRule == generate_fallback_response(message) # APOLOGY

\* C6 as stated: on the conversation path a message matching a rule-based
\* reply is answered with it without any language-model call.
CannedBeforeLanguageModel ==
    (intent = "conversation" /\ MatchesCannedRule) =>
        /\ ~Invoked("pollinations_text")
        /\ ~Invoked("cerebras")
        /\ pc = "done" => resp.response = Canned(generate_fallback_response(message))

\* C6: on the conversation path the language model is asked first: the text
\* backend, then the completion SDK. A reply of the text backend is returned
\* as it is; the rule-based replies are consulted only after the text backend
\* gave no text and the completion SDK raised, or when the history is null
\* and the prompt cannot be built, and the matching one (or the apology) is
\* then returned verbatim.
LanguageModelBeforeCanned ==
    (intent = "conversation" /\ pc = "done") =>
        /\ conversation_history.none <=> ~Invoked("pollinations_text")
        /\ conversation_history.none => resp.response = Canned(generate_fallback_response(message))
        /\ \A i \in DOMAIN calls :
              (calls[i].provider = "pollinations_text" /\ GotData(i)) =>
                  /\ resp.response = Text("llm", "", calls[i].value)
                  /\ ~Invoked("cerebras")
        /\ (resp.status = 200 /\ resp.response.kind = "canned") =>
              /\ \/ conversation_history.none
                 \/ /\ \E i \in DOMAIN calls : calls[i].provider = "pollinations_text" /\ NoData(i)
                    /\ \E i \in DOMAIN calls : calls[i].provider = "cerebras" /\ calls[i].status = "raised"
              /\ resp.response = Canned(generate_fallback_response(message))
        /\ (\E i \in DOMAIN calls : calls[i].provider = "cerebras" /\ calls[i].status = "raised") =>
              resp.response = Canned(generate_fallback_response(message))

\* a message with a rule-based reply got it after both backends failed
CannedAfterBackendsFailed ==
    /\ intent = "conversation"
    /\ ~conversation_history.none
    /\ pc = "done"
    /\ MatchesCannedRule
    /\ generate_fallback_response(message) # GREETING
    /\ resp.response = Canned(generate_fallback_response(message))
    /\ Len(calls) = 2

\* C7 as stated: "hello" with an empty history on the chat endpoint gets the
\* fixed greeting and no language-model call is made.
HelloGreetedWithoutLanguageModel ==
    (endpoint = "chat" /\ message = m_hello /\ conversation_history = History(<<>>) /\ pc = "done") =>
        /\ resp.response = Canned(GREETING)
        /\ ~Invoked("pollinations_text")
        /\ ~Invoked("cerebras")

\* C7: "hello" with an empty history is one word of more than three
\* characters, so the chat endpoint classifies it as a search: the dictionary
\* and the AI overview are asked, and the fixed greeting is the reply exactly
\* when the dictionary gave nothing and both language-model backends of the
\* enrichment failed.
HelloIsSearched ==
    (endpoint = "chat" /\ message = m_hello /\ conversation_history = History(<<>>) /\ pc = "done") =>
        /\ intent = "search"
        /\ ~HandlerHit
        /\ \E i \in DOMAIN calls : calls[i].provider = "dictionary" /\ calls[i].arg = m_hello
        /\ Invoked("cerebras")
        /\ resp.status = 200
        /\ resp.needs_search
        /\ resp.response = Canned(GREETING) <=>
              /\ \E i \in DOMAIN calls : calls[i].provider = "dictionary" /\ NoData(i)
              /\ \E i \in DOMAIN calls : calls[i].provider = "pollinations_text" /\ NoData(i)
              /\ calls[Len(calls)].provider = "cerebras"
              /\ calls[Len(calls)].status = "raised"

\* "hello" ended in the greeting, after a search and two failed backends
HelloGreetedAfterSearch ==
    /\ endpoint = "chat"
    /\ message = m_hello
    /\ conversation_history = History(<<>>)
    /\ pc = "done"
    /\ intent = "search"
    /\ resp.response = Canned(GREETING)
    /\ resp.search_data.present

\* C8: "tell me a detailed history of the Roman Empire" (with a history that
\* is a list) matches no handler and no search rule, goes to the language
\* model, and gets the apology when every language-model call fails.
RomanEmpireGetsApology ==
    (endpoint = "chat" /\ message = m_roman /\ ~conversation_history.none /\ pc = "done") =>
        /\ \A i \in DOMAIN calls : ~InScan(calls[i].provider)
        /\ intent = "conversation"
        /\ Invoked("pollinations_text")
        /\ LLMCallsFailed => resp.response = Canned(APOLOGY)

\* ------------------------------------------------------------------------
\* Properties of the aggregator
\* ------------------------------------------------------------------------
\* the SearchResponse once it is assembled
Assembled == IF endpoint = "search" THEN resp.search_data ELSE search_result

FirstCall(p) == CHOOSE i \in DOMAIN calls : calls[i].provider = p /\ \A j \in 1..(i - 1) : calls[j].provider # p

\* what the aggregator's call of provider p brought back, None when it was
\* not called, failed or brought nothing
Brought(p) == IF Invoked(p) /\ GotData(FirstCall(p)) THEN calls[FirstCall(p)].value ELSE None

\* C9: each branch of the aggregator fails alone: a field of the response
\* holds what its own provider brought and is absent or empty when that
\* provider failed, whatever the other providers did; the endpoint raises no
\* error. A failed web search with a dictionary hit gives a response with the
\* dictionary populated and no web results.
AggregatorIsolatesFailures ==
    /\ (endpoint = "search" /\ pc = "done") => (resp.status = 200 /\ resp.model = "SearchResponse" /\ Assembled.present)
    /\ Assembled.present =>
          /\ Assembled.dictionary = Brought("dictionary")
          /\ Logged(Assembled.ai_overview) = Brought("cerebras")
          /\ Assembled.wikipedia_summary = Brought("wikipedia")
          /\ Assembled.images = (IF Truthy(Brought("pixabay")) THEN <<ImageResult(Brought("pixabay"), 640, 480)>> ELSE <<>>)
          /\ Assembled.web_results = (IF Truthy(Brought("serpapi")) THEN WebResults(Brought("serpapi").q) ELSE <<>>)

\* the web search raised, the dictionary and the encyclopedia answered, the
\* image search did not
DictionarySurvivesWebFailure ==
    /\ endpoint = "search"
    /\ pc = "done"
    /\ \E i \in DOMAIN calls : calls[i].provider = "serpapi" /\ calls[i].status = "raised"
    /\ Truthy(Brought("dictionary"))
    /\ Truthy(Brought("wikipedia"))
    /\ ~Truthy(Brought("pixabay"))
    /\ resp.search_data.dictionary = Brought("dictionary")
    /\ resp.search_data.web_results = <<>>

AllProvidersFailed == \A i \in DOMAIN calls : NoData(i)

ProviderFieldsEmpty(sr) ==
    /\ ~Truthy(sr.ai_overview)
    /\ sr.web_results = <<>>
    /\ sr.images = <<>>
    /\ sr.dictionary = None
    /\ sr.wikipedia_summary = None

\* C10 as stated: the search endpoint always returns a SearchResponse; with
\* every provider failing it holds the query and nothing else.
SearchWorstCaseOnlyQuery ==
    (endpoint = "search" /\ pc = "done") =>
        /\ resp.status = 200
        /\ resp.model = "SearchResponse"
        /\ AllProvidersFailed =>
              /\ resp.search_data.query = message
              /\ ProviderFieldsEmpty(resp.search_data)
              /\ ~resp.search_data.calculator_result.present

\* C10: the search endpoint always returns a SearchResponse holding the
\* query; with every provider failing the provider-fed fields are absent or
\* empty and the two counters are empty strings. The calculator result is
\* absent exactly when the query is not made of the allow-listed characters;
\* otherwise it holds the calculator's outcome, success or failure.
SearchWorstCase ==
    (endpoint = "search" /\ pc = "done") =>
        /\ resp.status = 200
        /\ resp.model = "SearchResponse"
        /\ resp.search_data.query = message
        /\ resp.search_data.calculator_result.present <=> is_valid_expression(message)
        /\ is_valid_expression(message) => resp.search_data.calculator_result = calculate(message)
        /\ AllProvidersFailed =>
              /\ ProviderFieldsEmpty(resp.search_data)
              /\ resp.search_data.total_results = ""
              /\ resp.search_data.search_time = ""

\* every provider that was called failed, the web search by raising
SearchAnsweredWithEverythingDown ==
    /\ endpoint = "search"
    /\ pc = "done"
    /\ AllProvidersFailed
    /\ \E i \in DOMAIN calls : calls[i].provider = "serpapi" /\ calls[i].status = "raised"
    /\ \E i \in DOMAIN calls : calls[i].provider = "dictionary"
    /\ resp.status = 200
    /\ ~resp.search_data.calculator_result.present

\* the four tasks handed to asyncio.gather have all been started
GatherStarted == Invoked("cerebras") /\ Invoked("pixabay") /\ Invoked("wikipedia")

\* C11: in search() the dictionary lookup runs concurrently with the other
\* branches: while the dictionary call is outstanding, the web search, the AI
\* overview, the image search and the summary are started or can start; none
\* of them waits for the dictionary to return.
DictionaryDoesNotBlock ==
    "dictionary" \in inflight =>
        \/ GatherStarted
        \/ ENABLED (serp_search \/ search_ai_overview \/ search_pixabay_start \/ search_wikipedia_start)

\* ------------------------------------------------------------------------
\* Properties of the composition from the aggregated result
\* ------------------------------------------------------------------------
\* the text chosen from the aggregated result is in response_text: from the
\* composition until the enrichment, if any, hands back its value
Composed ==
    /\ endpoint = "chat"
    /\ intent = "search"
    /\ search_result.present
    /\ \/ caller = "enrich" /\ pc \in {"generate_enhanced_response", "await_pollinations_text", "cerebras_fallback"}
       \/ caller # "enrich" /\ pc = "done"

CalcSucceeded(sr) == sr.calculator_result.present /\ sr.calculator_result.success

\* C12: the text composed from an aggregated result comes from exactly one
\* source, the first populated one in the order successful calculator result,
\* dictionary hit, encyclopedia summary, first web snippet, generic text,
\* however many of the fields are populated.
ComposePriority ==
    Composed =>
        LET sr == search_result
            t == response_text
        IN  /\ t.kind \in {"calculator", "dictionary", "wikipedia", "web_snippet", "generic"}
            /\ t.kind = "calculator" <=> CalcSucceeded(sr)
            /\ t.kind = "dictionary" <=> (~CalcSucceeded(sr) /\ Truthy(sr.dictionary))
            /\ t.kind = "wikipedia" <=>
                  (~CalcSucceeded(sr) /\ ~Truthy(sr.dictionary) /\ Truthy(sr.wikipedia_summary))
            /\ t.kind = "web_snippet" <=>
                  (~CalcSucceeded(sr) /\ ~Truthy(sr.dictionary) /\ ~Truthy(sr.wikipedia_summary)
                   /\ sr.web_results # <<>>)
            /\ t.kind = "calculator" => t.v = sr.calculator_result
            /\ t.kind = "dictionary" => t.v = sr.dictionary
            /\ t.kind = "wikipedia" => t.v = sr.wikipedia_summary
            /\ t.kind = "web_snippet" => t.v = sr.web_results[1]
            /\ t.kind = "generic" => t.s = GENERIC

\* every source is populated and the calculator supplies the text
CalculatorChosenAmongAll ==
    /\ Composed
    /\ CalcSucceeded(search_result)
    /\ Truthy(search_result.dictionary)
    /\ Truthy(search_result.wikipedia_summary)
    /\ search_result.web_results # <<>>
    /\ response_text.kind = "calculator"

\* the calls made by the enrichment: the text backend is asked by
\* generate_enhanced_response only
EnrichmentInvoked == Invoked("pollinations_text")

\* C13: calculator and dictionary answers are never rephrased: when the
\* aggregated result holds a successful calculator result or a dictionary
\* hit, the reply is exactly the text composed from it and the language model
\* is not invoked for enrichment.
PreciseAnswersNotRephrased ==
    (endpoint = "chat" /\ intent = "search" /\ search_result.present
        /\ (CalcSucceeded(search_result) \/ Truthy(search_result.dictionary))) =>
        /\ ~EnrichmentInvoked
        /\ pc \notin {"generate_enhanced_response", "await_pollinations_text", "cerebras_fallback"}
        /\ pc = "done" =>
              /\ resp.status = 200
              /\ resp.response.kind \in {"calculator", "dictionary"}
              /\ resp.response = ComposeText(search_result)

\* both calls of the enrichment failed: the text backend gave no text and
\* the completion call that followed it raised
EnrichmentFailed ==
    /\ \E i \in DOMAIN calls : calls[i].provider = "pollinations_text" /\ NoData(i)
    /\ calls[Len(calls)].provider = "cerebras"
    /\ calls[Len(calls)].status = "raised"
    /\ Len(calls) > 1
    /\ calls[Len(calls) - 1].provider = "pollinations_text"

\* C14: enrichment is invisible on failure: when the text was composed from
\* the aggregated result and every language-model call of the enrichment
\* fails, the reply is the composed text, unchanged.
EnrichmentFailureKeepsText ==
    (endpoint = "chat" /\ intent = "search" /\ pc = "done" /\ EnrichmentFailed
        /\ ComposeText(search_result).kind \in {"wikipedia", "web_snippet", "generic"}) =>
        /\ resp.status = 200
        /\ resp.response = ComposeText(search_result)

\* ------------------------------------------------------------------------
\* The calculator and the classifier on bounded inputs
\* ------------------------------------------------------------------------
\* all strings over alphabet of length at most n
Strs(alphabet, n) == UNION {[1..k -> alphabet] : k \in 0..n}

MaxExprLen == 3

MaxTokenLen == 5

\* characters of the allow-list, one outside it ("^"), and a blank
ExprAlphabet == {"0", "2", "+", "-", "*", "/", "(", ")", ".", "^", " "}

OperandChars == {"0", "2", "3"}

OperatorChars == {"+", "-", "*", "/"}

\* a op b op c, (a op b) op c and a op (b op c)
Triples ==
    UNION {{<<a, o, b, p, c>>, <<"(", a, o, b, ")", p, c>>, <<a, o, "(", b, p, c, ")">>} :
             <<a, o, b, p, c>> \in OperandChars \X OperatorChars \X OperandChars \X OperatorChars \X OperandChars}

e_nested == <<"2","*","(","3","/","(","1","-","1",")",")">>
e_caret == <<"2","^","3">>
e_leading_zero == <<"0","8"," ","+"," ","1">>
e_float == <<"1",".","5","*","2">>
e_floordiv == <<"8","/","/","2">>
e_call == <<"2"," ","(","3",")">>
e_letters == <<"t","w","o","+","2">>
e_padded == <<" ","8","/","4","/","2"," ">>

Expressions ==
    Strs(ExprAlphabet, MaxExprLen) \cup Triples
        \cup {m_calc, m_div0, m_bad, m_power, e_nested, e_caret, e_leading_zero, e_float,
              e_floordiv, e_call, e_letters, e_padded}

\* CalculatorService.calculate applied to an expression, in two steps: the
\* strip and the allow-list check, then ast.parse and evaluate_node
CalcInit ==
    /\ endpoint = "calculate"
    /\ message \in Expressions
    /\ num_results = NoLimit
    /\ conversation_history = History(<<>>)
    /\ pc = "calculate"
    /\ calls = <<>>
    /\ module_state = ModuleState
    /\ suspended = NoRequest
    /\ intent = "unset"
    /\ calc_result = NoCalc
    /\ dict_result = None
    /\ serp_data = EmptySerp
    /\ ai_overview = None
    /\ images = <<>>
    /\ wiki_summary = None
    /\ search_result = NoSearchData
    /\ response_text = NoneText
    /\ caller = ""
    /\ resp = NoResponse

calculate_validate ==
    /\ pc = "calculate"
    /\ IF ~is_valid_expression(Strip(message))
       THEN /\ calc_result' = calculate(message)
            /\ pc' = "done"
       ELSE /\ pc' = "ast_parse"
            /\ UNCHANGED calc_result
    /\ UNCHANGED <<req, outside, calls, dict_result, serp_data, ai_overview, images, wiki_summary, chatv, resp>>

calculate_evaluate ==
    /\ pc = "ast_parse"
    /\ calc_result' = calculate(message)
    /\ pc' = "done"
    /\ UNCHANGED <<req, outside, calls, dict_result, serp_data, ai_overview, images, wiki_summary, chatv, resp>>

CalcNext == calculate_validate \/ calculate_evaluate

CalcSpec == CalcInit /\ [][CalcNext]_vars

TokenAlphabet == {"a", "2", "+", " "}

\* determine_intent applied to a message, as chat does after the scan
IntentInit ==
    /\ endpoint = "chat"
    /\ message \in Strs(TokenAlphabet, MaxTokenLen) \cup Messages
    /\ num_results = Limit(10)
    /\ conversation_history = History(<<>>)
    /\ pc = "determine_intent"
    /\ calls = <<>>
    /\ module_state = ModuleState
    /\ suspended = NoRequest
    /\ intent = "unset"
    /\ calc_result = NoCalc
    /\ dict_result = None
    /\ serp_data = EmptySerp
    /\ ai_overview = None
    /\ images = <<>>
    /\ wiki_summary = None
    /\ search_result = NoSearchData
    /\ response_text = NoneText
    /\ caller = ""
    /\ resp = NoResponse

IntentSpec == IntentInit /\ [][chat_determine_intent]_vars

\* ------------------------------------------------------------------------
\* Properties of the classifier
\* ------------------------------------------------------------------------
\* the message is one run of non-blank characters, more than three of them,
\* with blanks around it at most
IsSingleLongToken(m) ==
    LET solid == {i \in 1..Len(m) : m[i] \notin Whitespace}
    IN  /\ Cardinality(solid) > 3
        /\ \A i, j \in solid : \A k \in i..j : k \in solid

\* the message is made of digits, + - * / ( ) . and blanks only
IsAllowListed(m) ==
    /\ m # <<>>
    /\ \A i \in 1..Len(m) : m[i] \in Digits \cup {"+", "-", "*", "/", "(", ")", "."} \cup Whitespace

\* C15: a message that is exactly one token longer than three characters is
\* classified as needing a search, whatever the token; so is every message
\* made of the arithmetic allow-list only.
SingleTokenAndArithmeticNeedSearch ==
    (intent # "unset" /\ (IsSingleLongToken(message) \/ IsAllowListed(message))) => intent = "search"

\* a padded token that is no keyword and no arithmetic was classified
PaddedTokenNeedsSearch ==
    /\ intent = "search"
    /\ pc = "search"
    /\ IsSingleLongToken(message)
    /\ ~IsAllowListed(message)
    /\ Len(message) = 5
    /\ message[1] = " "
    /\ message[2] = "a"

\* ------------------------------------------------------------------------
\* Properties of the calculator
\* ------------------------------------------------------------------------
\* Standard arithmetic on a string, read off the string itself: split at the
\* last + or - outside parentheses that has an operand on its left, else at
\* the last * or /, else a sign, a parenthesised expression or a numeral.
\* The value is the exact quotient n/d; "divzero" is a zero divisor,
\* "malformed" a string that is no arithmetic expression.
RefNum(n, d) == [k |-> "num", n |-> Num(n, d, FALSE).n, d |-> Num(n, d, FALSE).d]

RefDivZero == [k |-> "divzero", n |-> 0, d |-> 1]

RefMalformed == [k |-> "malformed", n |-> 0, d |-> 1]

\* blanks may stand anywhere but inside a numeral
BlanksSplitNumeral(s) ==
    \E i, j \in 1..Len(s) :
        /\ i + 1 < j
        /\ s[i] \in Digits \cup {"."}
        /\ s[j] \in Digits \cup {"."}
        /\ \A x \in (i + 1)..(j - 1) : s[x] = " "

Squeeze(s) == Pick(s, {i \in 1..Len(s) : s[i] # " "})

\* number of parentheses open before position i
DepthAt(t, i) ==
    Cardinality({x \in 1..(i - 1) : t[x] = "("}) - Cardinality({x \in 1..(i - 1) : t[x] = ")"})

\* positions of the binary operators in ops that stand outside parentheses
BinaryAt(t, ops) ==
    {i \in 2..(Len(t) - 1) :
        /\ t[i] \in ops
        /\ DepthAt(t, i) = 0
        /\ \A x \in 1..i : DepthAt(t, x) >= 0
        /\ t[i - 1] \in Digits \cup {".", ")"}}

RefApply(op, l, r) ==
    IF l.k = "malformed" \/ r.k = "malformed" THEN RefMalformed
    ELSE IF l.k = "divzero" \/ r.k = "divzero" THEN RefDivZero
    ELSE IF op = "+" THEN RefNum(l.n * r.d + r.n * l.d, l.d * r.d)
    ELSE IF op = "-" THEN RefNum(l.n * r.d - r.n * l.d, l.d * r.d)
    ELSE IF op = "*" THEN RefNum(l.n * r.n, l.d * r.d)
    ELSE IF r.n = 0 THEN RefDivZero
    ELSE RefNum(l.n * r.d, l.d * r.n)

RefNumeral(t) ==
    LET dots == {i \in 1..Len(t) : t[i] = "."}
        digs == Pick(t, {i \in 1..Len(t) : t[i] # "."})
    IN  IF \E i \in 1..Len(t) : t[i] \notin Digits \cup {"."} THEN RefMalformed
        ELSE IF Cardinality(dots) > 1 \/ digs = <<>> THEN RefMalformed
        ELSE IF dots = {} THEN RefNum(DigitsVal(digs, 0), 1)
        ELSE RefNum(DigitsVal(digs, 0), Pow(10, Len(t) - (CHOOSE i \in dots : TRUE)))

RECURSIVE RefTerm(_)
RefTerm(t) ==
    IF t = <<>> THEN RefMalformed
    ELSE IF BinaryAt(t, {"+", "-"}) # {}
    THEN LET i == CHOOSE x \in BinaryAt(t, {"+", "-"}) : \A y \in BinaryAt(t, {"+", "-"}) : y <= x
         IN  RefApply(t[i], RefTerm(SubSeq(t, 1, i - 1)), RefTerm(SubSeq(t, i + 1, Len(t))))
    ELSE IF BinaryAt(t, {"*", "/"}) # {}
    THEN LET i == CHOOSE x \in BinaryAt(t, {"*", "/"}) : \A y \in BinaryAt(t, {"*", "/"}) : y <= x
         IN  RefApply(t[i], RefTerm(SubSeq(t, 1, i - 1)), RefTerm(SubSeq(t, i + 1, Len(t))))
    ELSE IF t[1] = "+" THEN RefTerm(Tail(t))
    ELSE IF t[1] = "-" THEN RefApply("-", RefNum(0, 1), RefTerm(Tail(t)))
    ELSE IF t[1] = "(" /\ t[Len(t)] = ")" /\ Len(t) > 2 THEN RefTerm(SubSeq(t, 2, Len(t) - 1))
    ELSE RefNumeral(t)

StandardArithmetic(s) ==
    IF (\E i \in 1..Len(s) : s[i] \notin Digits \cup {"+", "-", "*", "/", "(", ")", ".", " "})
        \/ BlanksSplitNumeral(s)
    THEN RefMalformed
    ELSE RefTerm(Squeeze(s))

\* C16: on every well-formed arithmetic expression made of allow-listed
\* characters calculate succeeds with the value of standard arithmetic:
\* * and / bind tighter than + and -, parentheses are respected, operators
\* of equal precedence go left to right.
CalculateIsStandardArithmetic ==
    (endpoint = "calculate" /\ pc = "done" /\ StandardArithmetic(message).k = "num") =>
        /\ calc_result.success
        /\ calc_result.n = StandardArithmetic(message).n
        /\ calc_result.d = StandardArithmetic(message).d

\* an integer numeral written with a superfluous leading zero, which
\* ast.parse refuses: the expression is then never evaluated
HasPaddedInteger(s) ==
    \E i, j \in 1..Len(s) :
        /\ i < j
        /\ s[i] = "0"
        /\ i = 1 \/ s[i - 1] \notin Digits \cup {"."}
        /\ \A x \in i..j : s[x] \in Digits
        /\ s[j] # "0"
        /\ \A x \in j..Len(s) : (\A y \in j..x : s[y] \in Digits \cup {"."}) => s[x] # "."

\* C17: whenever the evaluation of an allow-listed expression divides by
\* zero, at any depth, calculate returns the failure "Division by zero":
\* never a number, never another failure.
DivisionByZeroIsDistinct ==
    (endpoint = "calculate" /\ pc = "done" /\ StandardArithmetic(message).k = "divzero"
        /\ ~HasPaddedInteger(message)) =>
        /\ calc_result.present
        /\ ~calc_result.success
        /\ calc_result.error = "Division by zero"

\* the zero divisor is two parentheses deep
NestedDivisionByZero ==
    /\ endpoint = "calculate"
    /\ pc = "done"
    /\ message = e_nested
    /\ StandardArithmetic(message).k = "divzero"
    /\ calc_result.error = "Division by zero"

\* C18: every failure of calculate other than division by zero carries the
\* one text "Invalid expression", so calculate ends in one of three ways:
\* a number, "Division by zero", "Invalid expression".
ThreeOutcomeKinds ==
    (endpoint = "calculate" /\ pc = "done") =>
        /\ calc_result.present
        /\ \/ calc_result.success /\ ~IsEllipsis(calc_result)
           \/ ~calc_result.success /\ calc_result.error \in {"Division by zero", "Invalid expression"}

\* the characters the validity gate lets through
GateChars ==
    {"0", "1", "2", "3", "4", "5", "6", "7", "8", "9", "+", "-", "*", "/", "(", ")", ".",
     " ", "\t", "\n"}

HasForeignChar(s) == \E i \in 1..Len(s) : s[i] \notin GateChars

\* C19: an expression holding any character outside digits, + - * / ( ) .
\* and whitespace ends as the failure "Invalid expression", and ast.parse
\* is only ever reached by an expression that passed the allow-list.
ValidityGate ==
    endpoint = "calculate" =>
        /\ pc = "ast_parse" => (Strip(message) # <<>> /\ ~HasForeignChar(message))
        /\ (pc = "done" /\ HasForeignChar(message)) =>
               /\ calc_result.present
               /\ ~calc_result.success
               /\ calc_result.error = "Invalid expression"

\* letters are turned away at the gate
LettersRejectedAtGate ==
    /\ endpoint = "calculate"
    /\ pc = "done"
    /\ message = e_letters
    /\ HasForeignChar(message)
    /\ calc_result.error = "Invalid expression"

\* C20 as stated: "2^3" is accepted and evaluates to 8.
CaretIsPower ==
    (endpoint = "calculate" /\ pc = "done" /\ message = e_caret) =>
        /\ calc_result.success
        /\ calc_result.n = 8
        /\ calc_result.d = 1

\* C20: power is written **: "2**3" is accepted and evaluates to 8,
\* alongside + - * / and unary + and -; an expression holding ^ is turned
\* away with "Invalid expression".
PowerIsDoubleStar ==
    (endpoint = "calculate" /\ pc = "done") =>
        /\ message = m_power =>
               (calc_result.success /\ calc_result.n = 8 /\ calc_result.d = 1)
        /\ message = <<"-", "2">> =>
               (calc_result.success /\ calc_result.n = -2 /\ calc_result.d = 1)
        /\ message = <<"+", "2">> =>
               (calc_result.success /\ calc_result.n = 2 /\ calc_result.d = 1)
        /\ (\E i \in 1..Len(message) : message[i] = "^") =>
               (~calc_result.success /\ calc_result.error = "Invalid expression")

PowerEvaluated ==
    /\ endpoint = "calculate"
    /\ pc = "done"
    /\ message = m_power
    /\ calc_result.success
    /\ calc_result.n = 8

\* ------------------------------------------------------------------------
\* Termination when a provider never answers
\* ------------------------------------------------------------------------
\* a request to /search, the aggregator that /chat calls as well; the
\* calculator makes no external call, and queries for it are left out
SearchInit == Init /\ endpoint = "search" /\ ~is_valid_expression(message)

SearchNext ==
    \/ search_begin \/ dictionary_return
    \/ serp_search \/ search_ai_overview
    \/ search_pixabay_start \/ search_wikipedia_start
    \/ pixabay_return \/ wikipedia_return
    \/ search_assemble

\* The steps that are bound to happen: those that make no external call,
\* and those whose call goes through an httpx.AsyncClient built with a
\* timeout (server.py 161, 175, 206), so that a provider that never answers
\* ends as a failure.  The SerpAPI call (server.py 854-855) and the Cerebras
\* call (server.py 144) are made without a timeout: nothing forces them
\* to end.
TimedSearchNext ==
    \/ search_begin \/ dictionary_return
    \/ (num_results.none /\ serp_search)
    \/ search_pixabay_start \/ search_wikipedia_start
    \/ pixabay_return \/ wikipedia_return
    \/ search_assemble

SearchLiveSpec == SearchInit /\ [][SearchNext]_vars /\ WF_vars(TimedSearchNext)

\* the same with every call bound to end, timeout or not
SearchAllAnswerSpec == SearchInit /\ [][SearchNext]_vars /\ WF_vars(SearchNext)

\* C21: every external call carries a timeout, so whichever provider never
\* answers, the request still ends with a response.
EveryRequestReturns == <>(pc = "done")

\* ------------------------------------------------------------------------
\* The provider clients
\* ------------------------------------------------------------------------
\* the client methods of api_clients.py and the get_* / search_* functions
\* of server.py that wrap one HTTP exchange
ClientMethods ==
    {"pollinations_image", "pollinations_text", "coingecko", "arxiv", "stackexchange",
     "openmeteo", "pokeapi", "dogapi", "catapi", "chucknorris", "programming_quotes",
     "ipinfo", "dictionary", "pixabay", "wikipedia"}

\* C22: whatever the transport does, a client call comes back with the
\* result or with the absence value: it never raises into its caller, and
\* a request never ends as a 500 on a client's account.
ClientsNeverRaise ==
    /\ \A i \in DOMAIN calls :
          calls[i].provider \in ClientMethods =>
             /\ calls[i].status \in {"pending", "returned"}
             /\ calls[i].value.kind \in {"data", "none"}
    /\ (pc = "done" /\ resp.status # 200) =>
          /\ endpoint = "chat"
          /\ caller = "conversation"
          /\ calls[Len(calls)].provider = "cerebras"

\* the cat client met a transport failure and the request went on to an answer
CatFailureAbsorbed ==
    /\ pc = "done"
    /\ resp.status = 200
    /\ \E i \in DOMAIN calls :
          /\ calls[i].provider = "catapi"
          /\ calls[i].status = "returned"
          /\ calls[i].value = None

\* ------------------------------------------------------------------------
\* How often a provider is invoked
\* ------------------------------------------------------------------------
CallsTo(p) == {i \in DOMAIN calls : calls[i].provider = p}

\* C23 as stated: during one /chat request no provider is invoked twice.
AtMostOncePerProvider ==
    endpoint = "chat" => \A i, j \in DOMAIN calls : calls[i].provider = calls[j].provider => i = j

\* C23: during one /chat request every provider is invoked at most once,
\* but for Cerebras, which is invoked at most twice: by get_ai_overview in
\* the search, and as the fallback of the enrichment once Pollinations has
\* come back without text; no call is repeated after a failure.
AtMostOnceButCerebras ==
    endpoint = "chat" =>
        /\ \A i \in DOMAIN calls :
              Cardinality(CallsTo(calls[i].provider)) <= (IF calls[i].provider = "cerebras" THEN 2 ELSE 1)
        /\ \A i, j \in CallsTo("cerebras") :
              i < j => /\ intent = "search"
                       /\ caller = "enrich"
                       /\ \E k \in CallsTo("pixabay") : i < k /\ k < j
                       /\ \E k \in CallsTo("pollinations_text") :
                             i < k /\ k < j /\ calls[k].status = "returned" /\ calls[k].value = None

CerebrasInvokedTwice ==
    /\ endpoint = "chat"
    /\ pc = "done"
    /\ Cardinality(CallsTo("cerebras")) = 2

\* ------------------------------------------------------------------------
\* The weather and the price replies
\* ------------------------------------------------------------------------
KnownCities == {n_London, n_Paris, n_Tokyo, n_Sydney}

\* the known cities the message names, in any letter case
CitiesNamed(m) == {c \in KnownCities : Contains(Lower(m), Lower(c))}

\* the weather provider was reached and answered with a current_weather
WeatherSucceeded ==
    /\ endpoint = "chat"
    /\ pc = "done"
    /\ calls # <<>>
    /\ calls[Len(calls)].provider = "openmeteo"
    /\ GotData(Len(calls))

\* C24: when the weather provider is reached and succeeds, the reply names
\* a city the message names (that city when it names one only), New York
\* when it names none, and shows the provider's temperature.
WeatherReplyNamesCity ==
    WeatherSucceeded =>
        LET text == resp.response.s
            temperature == calls[Len(calls)].value.q[1].temperature
        IN  /\ resp.status = 200
            /\ resp.response.kind = "weather"
            /\ CitiesNamed(message) # {} =>
                   /\ \E c \in CitiesNamed(message) : Contains(text, c)
                   /\ \A c \in KnownCities \ CitiesNamed(message) : ~Contains(text, c)
                   /\ ~Contains(text, n_New_York)
            /\ CitiesNamed(message) = {} =>
                   /\ Contains(text, n_New_York)
                   /\ \A c \in KnownCities : ~Contains(text, c)
            /\ temperature.present =>
                   Contains(text, <<"T","e","m","p","e","r","a","t","u","r","e",":"," ">>
                                  \o FormatPlain(temperature) \o <<"°","C">>)

\* "weather in London" answered with 15.3 degrees
LondonWeatherReply ==
    /\ WeatherSucceeded
    /\ message = m_weather_london
    /\ Contains(resp.response.s, n_London)
    /\ Contains(resp.response.s, <<"1","5",".","3","°","C">>)

\* the price provider was reached and answered with prices
CryptoSucceeded ==
    /\ endpoint = "chat"
    /\ pc = "done"
    /\ calls # <<>>
    /\ calls[Len(calls)].provider = "coingecko"
    /\ GotData(Len(calls))

LineBreaks(text) == Cardinality({i \in 1..Len(text) : text[i] = "\n"})

\* C25: a message that matches the crypto trigger and no image-generation
\* trigger reaches the price provider, and when that succeeds the reply is
\* the "Cryptocurrency Prices" table with one dollar-formatted line for
\* each coin returned and no other line; "bitcoin price" gets a line for
\* Bitcoin.
CryptoReplyIsPriceTable ==
    /\ (endpoint = "chat" /\ pc = "done" /\ crypto_predicate(message) /\ ~pollinations_predicate(message)) =>
          (calls # <<>> /\ calls[1].provider = "coingecko")
    /\ CryptoSucceeded =>
          LET text == resp.response.s
              prices == calls[Len(calls)].value.q
          IN  /\ resp.status = 200
              /\ resp.response.kind = "crypto"
              /\ StartsWith(text, CryptoHeader)
              /\ \A i \in DOMAIN prices :
                    Contains(text, <<"*","*">> \o Capitalize(prices[i].coin) \o <<"*","*",":"," ","$">>
                                   \o FormatGrouped(prices[i].usd) \o <<" ">>)
              /\ LineBreaks(text) = LineBreaks(CryptoHeader) + Len(prices)
              /\ message = m_bitcoin_price =>
                    Contains(text, <<"*","*","B","i","t","c","o","i","n","*","*",":"," ","$">>)

\* "bitcoin price" answered with a line for Bitcoin at $67,123.45
BitcoinPriceLine ==
    /\ CryptoSucceeded
    /\ message = m_bitcoin_price
    /\ Contains(resp.response.s,
                <<"*","*","B","i","t","c","o","i","n","*","*",":"," ","$","6","7",",","1","2","3",".","4","5"," ","(","-","1",".","2","3","%",")">>)

\* ------------------------------------------------------------------------
\* "define <word>" in /chat
\* ------------------------------------------------------------------------
\* the word asked about in "define serendipity"
DefinedWord == Split(m_define)[2]

\* no dictionary lookup of this request came back without an entry
DictionaryKnowsTheWord ==
    \A i \in CallsTo("dictionary") : calls[i].status = "pending" \/ Truthy(calls[i].value)

\* C26: a /chat message "define serendipity" is answered with search_data
\* whose dictionary field holds the entry for "serendipity" and with a text
\* containing that word, provided the dictionary provider knows the word.
DefineWordPopulatesDictionary ==
    (endpoint = "chat" /\ pc = "done" /\ message = m_define /\ DictionaryKnowsTheWord) =>
        /\ resp.status = 200
        /\ resp.search_data.present
        /\ resp.search_data.dictionary = Data("dictionary", DefinedWord)
        /\ resp.response.kind = "dictionary"
        /\ resp.response.v.q = DefinedWord

\* ------------------------------------------------------------------------
\* The web results of the aggregated result
\* ------------------------------------------------------------------------
\* C27: web_results keep the provider's order, the i-th organic result
\* becoming the i-th web result; a result without a position gets its
\* 1-based index as position, a position the provider supplies is kept.
WebResultsKeepOrder ==
    Assembled.present =>
        LET web == Assembled.web_results
            organic == serp_data.organic
        IN  /\ Len(web) = Len(organic)
            /\ \A i \in DOMAIN web :
                  /\ web[i].title = organic[i].id
                  /\ organic[i].has_position => web[i].position = organic[i].position
                  /\ ~organic[i].has_position => web[i].position = i

\* a result with position 7 followed by one without: positions 7 and 2
SecondResultNumberedTwo ==
    /\ Assembled.present
    /\ Len(serp_data.organic) = 2
    /\ serp_data.organic[1].has_position /\ ~serp_data.organic[2].has_position
    /\ Assembled.web_results[1].position = 7
    /\ Assembled.web_results[2].position = 2

\* "num": min(request.num_results, 20)
HardCap == 20

\* C28: the number of web results search() returns never exceeds
\* min(limit, 20), however many organic results the provider returns.
WebResultsWithinLimit ==
    (Assembled.present /\ ~num_results.none) =>
        Len(Assembled.web_results)
            <= (IF num_results.v < HardCap THEN num_results.v ELSE HardCap)

\* ------------------------------------------------------------------------
\* The merge of the concurrent branches
\* ------------------------------------------------------------------------
Settled(p) == Invoked(p) /\ calls[FirstCall(p)].status # "pending"

\* the image list holds what the image branch returned
ImagesFromImageBranch(imgs) ==
    IF Truthy(Brought("pixabay"))
    THEN Len(imgs) = 1 /\ imgs[1].url = Brought("pixabay")
    ELSE imgs = <<>>

\* the web results are those of the web-search branch
WebFromWebBranch(web) ==
    IF Truthy(Brought("serpapi"))
    THEN /\ Len(web) = Len(Brought("serpapi").q)
         /\ \A i \in DOMAIN web : web[i].title = Brought("serpapi").q[i].id
    ELSE web = <<>>

\* C29: the assembled SearchResponse does not depend on the order in which
\* the concurrent branches complete: while the branches are awaited, each
\* one that has settled has its result in its own place whether or not the
\* other is still outstanding; the response is assembled only when every
\* branch has settled; and it holds in web_results, ai_overview, images and
\* wikipedia_summary what the branch of that name returned.
MergeByBranchIdentity ==
    /\ pc = "gather_wait" =>
          /\ Settled("pixabay") => ImagesFromImageBranch(images)
          /\ ~Settled("pixabay") => images = <<>>
          /\ Settled("wikipedia") => wiki_summary = Brought("wikipedia")
          /\ ~Settled("wikipedia") => wiki_summary = None
    /\ Assembled.present =>
          /\ Settled("cerebras") /\ Settled("pixabay") /\ Settled("wikipedia")
          /\ num_results.none \/ Settled("serpapi")
          /\ WebFromWebBranch(Assembled.web_results)
          /\ Truthy(Assembled.ai_overview) <=> Truthy(Brought("cerebras"))
          /\ Truthy(Assembled.ai_overview) => Assembled.ai_overview = Brought("cerebras")
          /\ ImagesFromImageBranch(Assembled.images)
          /\ Assembled.wikipedia_summary = Brought("wikipedia")

\* the summary has arrived before the images, which are still awaited
SummaryArrivedFirst ==
    /\ pc = "gather_wait"
    /\ Settled("wikipedia")
    /\ Truthy(wiki_summary)
    /\ ~Settled("pixabay")

\* ------------------------------------------------------------------------
\* Sequencing of the handler scan
\* ------------------------------------------------------------------------
\* the calls made by the handlers of the scan
ScanCalls == {i \in DOMAIN calls : InScan(calls[i].provider)}

Pending == {i \in DOMAIN calls : calls[i].status = "pending"}

\* C30: during the handler scan of /chat at most one provider call is in
\* flight, the call of the handler the request stands at; and a handler's
\* provider is invoked only after every handler before it that made a call
\* has finished with no data.
ScanIsSequential ==
    /\ ScanStage <= Len(ScanPcs) =>
          /\ Cardinality(Pending) <= 1
          /\ \A i \in Pending : i = Len(calls) /\ Rank(calls[i].provider) = ScanStage
    /\ \A i \in ScanCalls :
          /\ calls[i].status = "pending" => pc \in ScanPcs[Rank(calls[i].provider)]
          /\ \A j \in ScanCalls :
                i < j => (NoData(i) /\ Rank(calls[i].provider) < Rank(calls[j].provider))

\* the weather call is in flight after the price call came back empty
WeatherAwaitedAfterCryptoMiss ==
    /\ pc = "await_openmeteo"
    /\ Pending = {Len(calls)}
    /\ \E i \in ScanCalls : calls[i].provider = "coingecko" /\ NoData(i)

\* ------------------------------------------------------------------------
\* The creature lookup without a name
\* ------------------------------------------------------------------------
\* the message holds the trigger word and nothing else
EmptyCreatureName == pokemon_predicate(message) /\ pokemon_name(message) = <<>>

\* C31: for a creature-lookup message whose text is empty once the trigger
\* word is removed, the creature provider is not invoked, the handler
\* reports no match, and the scan goes on with the later handlers and then
\* the classifier.
EmptyCreatureNameSkipsProvider ==
    (endpoint = "chat" /\ pc \in {"handle_dog_query", "await_pokeapi", "done"} /\ EmptyCreatureName) =>
        /\ ~Invoked("pokeapi")
        /\ pc # "await_pokeapi"
        /\ pc = "done" =>
              /\ resp.response.kind # "pokemon"
              /\ intent # "unset" \/ HandlerHit

\* "pokemon" alone was classified and answered without the creature provider
BarePokemonClassified ==
    /\ endpoint = "chat"
    /\ message = m_pokemon
    /\ pc = "done"
    /\ intent = "search"
    /\ ~Invoked("pokeapi")

\* ------------------------------------------------------------------------
\* The coin ids asked of the price provider
\* ------------------------------------------------------------------------
\* the coins in their fixed order, each with its name and its ticker
CoinNames ==
    <<{s_bitcoin, s_btc}, {s_ethereum, s_eth}, {s_dogecoin, s_doge}, {s_cardano, s_ada},
      {s_solana, s_sol}>>

CoinIds == <<s_bitcoin, s_ethereum, s_dogecoin, s_cardano, s_solana>>

Recognized(k) == ContainsAny(Lower(message), CoinNames[k])

CoinIndex(id) == CHOOSE k \in DOMAIN CoinIds : CoinIds[k] = id

TickersAskedInFixedOrder ==
    /\ message = m_coins
    /\ \E i \in CallsTo("coingecko") : calls[i].arg = <<s_dogecoin, s_solana>>

\* ------------------------------------------------------------------------
\* The worst case seen by the user
\* ------------------------------------------------------------------------
\* C33: when every provider and every language-model call of a request
\* fails, the /chat response is the fixed apology string with no structured
\* payload, search_data being absent, on the needs-data path as on the
\* conversation path. Checked for the messages that match no canned-reply
\* rule, for which the rule-based fallback is the apology.
WorstCaseIsBareApology ==
    (endpoint = "chat" /\ pc = "done" /\ calls # <<>> /\ AllProvidersFailed /\ LLMCallsFailed
        /\ ~MatchesCannedRule) =>
        /\ resp.status = 200
        /\ resp.response = Canned(APOLOGY)
        /\ ~resp.search_data.present

\* ------------------------------------------------------------------------
\* What the language model is sent
\* ------------------------------------------------------------------------
\* the language-model calls made for conversation or enrichment: the text
\* backend's and the completion backend's that follows it
LanguageModelCalls ==
    CallsTo("pollinations_text")
    \cup {i \in CallsTo("cerebras") : \E k \in CallsTo("pollinations_text") : k < i}

\* the n most recent entries of the history, oldest first
MostRecent(n) ==
    LET h == conversation_history.turns
        k == IF Len(h) < n THEN Len(h) ELSE n
    IN  [j \in 1..k |-> h[Len(h) - k + j]]

\* the entries sent are the system prompt, the window, the current message
SentWithWindow(sent) ==
    /\ Len(sent) = Len(MostRecent(HistoryWindow)) + 2
    /\ sent[1].role = "system"
    /\ \A j \in DOMAIN MostRecent(HistoryWindow) : sent[j + 1] = MostRecent(HistoryWindow)[j]
    /\ sent[Len(sent)] = [role |-> "user", content |-> message]

\* C34: every language-model call made for conversation or enrichment
\* receives the system prompt, then the 5 most recent entries of the
\* conversation history (all of them when there are fewer) in their original
\* order, then the current user message as the last entry; older entries
\* are never sent.
LanguageModelGetsHistoryWindow ==
    \A i \in LanguageModelCalls : SentWithWindow(calls[i].arg)

\* the completion backend alone: what it is sent holds the window
CompletionBackendGetsWindow ==
    \A i \in LanguageModelCalls : calls[i].provider = "cerebras" => SentWithWindow(calls[i].arg)

\* the completion backend was called under a history longer than the window
CompletionCalledWithLongHistory ==
    /\ Len(conversation_history.turns) > HistoryWindow
    /\ \E i \in LanguageModelCalls : calls[i].provider = "cerebras"

\* ------------------------------------------------------------------------
\* Two requests in one process
\* ------------------------------------------------------------------------
\* the messages of the two requests: one the crypto and the weather handler
\* apply to, and one for the conversation path
PairMessages == {m_btc_weather, m_thank}

\* the locals of a /chat request that has not started
RequestStart(m, h) ==
    <<"chat", m, Limit(10), h, "handle_pollinations_query", <<>>, "unset", NoCalc, None,
      EmptySerp, None, <<>>, None, NoSearchData, NoneText, "", NoResponse>>

\* one /chat request about to start and a second one waiting to
PairInit ==
    /\ endpoint = "chat"
    /\ message \in PairMessages
    /\ num_results = Limit(10)
    /\ conversation_history \in HistoryChoices
    /\ pc = "handle_pollinations_query"
    /\ calls = <<>>
    /\ intent = "unset"
    /\ calc_result = NoCalc
    /\ dict_result = None
    /\ serp_data = EmptySerp
    /\ ai_overview = None
    /\ images = <<>>
    /\ wiki_summary = None
    /\ search_result = NoSearchData
    /\ response_text = NoneText
    /\ caller = ""
    /\ resp = NoResponse
    /\ module_state = ModuleState
    /\ suspended \in {RequestStart(m, h) : m \in PairMessages, h \in HistoryChoices}

\* the event loop resumes the other request: the two exchange places
switch_request ==
    /\ suspended # NoRequest
    /\ endpoint' = suspended[1]
    /\ message' = suspended[2]
    /\ num_results' = suspended[3]
    /\ conversation_history' = suspended[4]
    /\ pc' = suspended[5]
    /\ calls' = suspended[6]
    /\ intent' = suspended[7]
    /\ calc_result' = suspended[8]
    /\ dict_result' = suspended[9]
    /\ serp_data' = suspended[10]
    /\ ai_overview' = suspended[11]
    /\ images' = suspended[12]
    /\ wiki_summary' = suspended[13]
    /\ search_result' = suspended[14]
    /\ response_text' = suspended[15]
    /\ caller' = suspended[16]
    /\ resp' = suspended[17]
    /\ suspended' = locals
    /\ UNCHANGED module_state

\* the steps of /chat up to the aggregator that these messages lead to,
\* taken by whichever request runs
PairNext ==
    \/ handle_pollinations_query
    \/ handle_crypto_query \/ coingecko_return
    \/ handle_arxiv_query
    \/ handle_stackoverflow_query
    \/ handle_weather_query \/ openmeteo_return
    \/ handle_pokemon_query
    \/ handle_dog_query
    \/ handle_cat_query
    \/ handle_joke_query
    \/ handle_quote_query
    \/ handle_ip_query
    \/ chat_determine_intent
    \/ generate_enhanced_response \/ pollinations_text_return \/ cerebras_fallback
    \/ switch_request

PairSpec == PairInit /\ [][PairNext]_vars

\* two finished requests with the same message, the same history, the same
\* provider outcomes and the same status carry the same response
SameInputsSameResponse ==
    (/\ suspended # NoRequest
     /\ pc = "done" /\ suspended[5] = "done"
     /\ message = suspended[2]
     /\ conversation_history = suspended[4]
     /\ calls = suspended[6]
     /\ resp.status = suspended[17].status) => resp = suspended[17]

TwinRequestsAnswered ==
    /\ suspended # NoRequest
    /\ pc = "done" /\ suspended[5] = "done"
    /\ message = suspended[2]
    /\ conversation_history = suspended[4]
    /\ calls = suspended[6]
    /\ calls # <<>>

\* ------------------------------------------------------------------------
\* A bare topic name
\* ------------------------------------------------------------------------
\* C36: the /chat message "Albert Einstein", a topic name of two words with
\* no trigger keyword, is answered through the aggregated search, with the
\* encyclopedia summary in search_data whenever the encyclopedia answers.
BareTopicIsSearched ==
    (endpoint = "chat" /\ message = m_einstein /\ pc = "done") =>
        /\ intent = "search"
        /\ Invoked("wikipedia")
        /\ resp.status = 200 => (resp.needs_search /\ resp.search_data.present)
        /\ Truthy(Brought("wikipedia")) => resp.search_data.wikipedia_summary = Brought("wikipedia")

\* ------------------------------------------------------------------------
\* needs_search and search_data
\* ------------------------------------------------------------------------
\* the replies of the handlers that attach an image to the text
ImageKinds == {"image_generation", "dog", "cat"}

\* the replies of the handlers that answer with a text alone
TextOnlyKinds == {"crypto", "arxiv", "stackoverflow", "weather", "joke", "quote", "ip_info"}

\* C37: in every ChatResponse of /chat needs_search is true exactly when
\* search_data is present: the image-generation, dog and cat replies, the
\* creature reply with a sprite and the aggregated-search replies carry
\* both; the crypto, papers, Q&A, weather, joke, quote and IP replies, the
\* creature reply without a sprite and the conversation replies carry
\* neither.
NeedsSearchIffSearchData ==
    (endpoint = "chat" /\ pc = "done" /\ resp.status = 200) =>
        /\ resp.needs_search <=> resp.search_data.present
        /\ resp.response.kind \in ImageKinds => resp.needs_search
        /\ resp.response.kind \in TextOnlyKinds => ~resp.needs_search
        /\ resp.response.kind = "pokemon" => (resp.needs_search <=> resp.response.v.q.front_default)
        /\ intent = "search" => resp.needs_search
        /\ intent = "conversation" => ~resp.needs_search
        /\ intent = "unset" => resp.response.kind \in ImageKinds \cup TextOnlyKinds \cup {"pokemon"}

\* a creature without a sprite: a plain text reply
CreatureWithoutSprite ==
    /\ endpoint = "chat"
    /\ pc = "done"
    /\ resp.status = 200
    /\ resp.response.kind = "pokemon"
    /\ ~resp.needs_search
    /\ ~resp.search_data.present

\* ------------------------------------------------------------------------
\* The image-generation handler
\* ------------------------------------------------------------------------
\* C38: the image-generation handler makes no call over the network and
\* cannot fail: a /chat message containing one of its trigger phrases is
\* answered at once with exactly one generated-image URL built from a
\* non-empty prompt, the default prompt when nothing is left of the message,
\* and no other handler, the classifier, the aggregator or the language
\* model is reached.
ImageGenerationAlwaysAnswers ==
    (endpoint = "chat" /\ pollinations_predicate(message)) =>
        /\ pc \in {"handle_pollinations_query", "done"}
        /\ inflight = {}
        /\ intent = "unset"
        /\ ~search_result.present
        /\ pc = "done" =>
              /\ Len(calls) = 1
              /\ calls[1].provider = "pollinations_image"
              /\ calls[1].status = "returned"
              /\ calls[1].arg # <<>>
              /\ message = m_genimg => calls[1].arg = s_a_beautiful_landscape
              /\ resp.status = 200
              /\ resp.response.kind = "image_generation"
              /\ Len(resp.search_data.images) = 1
              /\ resp.search_data.images[1].url = Data("pollinations_image", calls[1].arg)

\* "generate image" alone was answered with the default landscape
DefaultPromptImage ==
    /\ endpoint = "chat"
    /\ message = m_genimg
    /\ pc = "done"
    /\ resp.search_data.images[1].url = Data("pollinations_image", s_a_beautiful_landscape)

\* ------------------------------------------------------------------------
\* The order of the language-model backends
\* ------------------------------------------------------------------------
\* C39: generate_enhanced_response calls the text backend first, the
\* completion backend only if the first gave no text or failed, and falls to
\* the rule-based reply only if both failed; it returns the first non-empty
\* result in that order and never raises. The value returned is read off the
\* reply of the conversation path.
LanguageModelFallbackOrder ==
    /\ \A i \in LanguageModelCalls :
          calls[i].provider = "cerebras" =>
             \E k \in CallsTo("pollinations_text") : k < i /\ NoData(k)
    /\ (intent = "conversation" /\ pc = "done") =>
          /\ resp.status = 200
          /\ TextTruthy(resp.response)
          /\ (\E k \in CallsTo("pollinations_text") : GotData(k)) =>
                /\ resp.response.kind = "llm"
                /\ resp.response.v.src = "pollinations_text"
                /\ CallsTo("cerebras") = {}
          /\ resp.response.kind = "canned" =>
                /\ \E k \in CallsTo("pollinations_text") : NoData(k)
                /\ \E i \in CallsTo("cerebras") : NoData(i)

\* ------------------------------------------------------------------------
\* Handler predicates against the intent keywords
\* (server.py 243-291, 323-327, 478-490, 294-300)
\* ------------------------------------------------------------------------

\* the predicate of some specialized handler matches the message
SomeHandlerPredicateMatches ==
    \/ pollinations_predicate(message)
    \/ crypto_predicate(message)
    \/ arxiv_predicate(message)
    \/ stackoverflow_predicate(message)
    \/ weather_predicate(message)
    \/ pokemon_predicate(message)
    \/ dog_predicate(message)
    \/ cat_predicate(message)
    \/ joke_predicate(message)
    \/ quote_predicate(message)
    \/ ip_predicate(message)

\* C40: a message matched by a handler predicate whose scan produced no data
\* is classified as needing search: it goes to the aggregated search and
\* never to the conversation path.
MatchedMessageNeverConversation ==
    (endpoint = "chat" /\ SomeHandlerPredicateMatches) =>
        /\ pc = "determine_intent" => determine_intent(message)
        /\ intent # "conversation"

\* a price question without a coin name, the price provider having failed,
\* is answered by the conversation path
PriceQuestionInConversation ==
    /\ endpoint = "chat"
    /\ message = m_gold
    /\ crypto_predicate(message)
    /\ \E i \in CallsTo("coingecko") : NoData(i)
    /\ intent = "conversation"
    /\ pc = "done"

\* the same predicates agree with the intent keywords on a message naming
\* the coin: the missed handler is followed by the aggregated search
MatchedMessageSearched ==
    /\ endpoint = "chat"
    /\ message = m_bitcoin_price
    /\ \E i \in CallsTo("coingecko") : NoData(i)
    /\ intent = "search"

====
